---- MODULE Spec2Model ----
(***************************************************************************)
(* State-machine model of open3d::t::geometry::RaycastingScene             *)
(* (cpp/open3d/t/geometry/RaycastingScene.cpp).                            *)
(*                                                                         *)
(* One action per public operation.  The acceleration provider (embree)    *)
(* is an external collaborator; it is modelled by its documented           *)
(* behaviour over a small world of triangles lying in planes x = const.    *)
(* Every call the scene makes into the provider is appended to the log     *)
(* `calls` of the running operation.                                       *)
(*                                                                         *)
(* A second state machine, PcmSpec, models the observers of                *)
(* open3d::visualization::webrtc_server::PeerConnectionManager             *)
(* (cpp/open3d/visualization/webrtc_server/PeerConnectionManager.h).  The  *)
(* two share no data and no control, so each specification leaves the      *)
(* other's variables alone.                                                *)
(***************************************************************************)
EXTENDS Integers, Sequences, FiniteSets, TLC

\* ------------------------------------------------------------------------
\* Bounds of the model
\* ------------------------------------------------------------------------
\* largest number of rays in one call
MaxRays == 3
\* largest number of query points in one call
MaxPoints == 2
\* largest number of geometries registered in one scene
MaxGeoms == 2
\* largest value tried for the batch size of one provider call
MaxBatch == 2
\* number of peer ids the peer connection manager is asked about
MaxPeers == 2
\* largest number of create-offer / set-description requests
MaxRequests == 2
\* largest number of detached HangUp threads of one observer that have
\* not run yet
MaxThreads == 2
\* largest number of ICE candidates gathered for one peer
MaxCandidates == 1

\* ------------------------------------------------------------------------
\* float: finite rationals n/d (d > 0, lowest terms), +inf, -inf and NaN
\* ------------------------------------------------------------------------
Abs(x) == IF x < 0 THEN -x ELSE x

RECURSIVE Gcd(_, _)
Gcd(a, b) == IF b = 0 THEN a ELSE Gcd(b, a % b)

Fin(n, d) ==
    IF d = 1 THEN [k |-> "fin", n |-> n, d |-> 1]
    ELSE LET s == IF d < 0 THEN -1 ELSE 1
             g == Gcd(Abs(n), Abs(d))
         IN  [k |-> "fin", n |-> (s * n) \div g, d |-> (s * d) \div g]

F(i) == [k |-> "fin", n |-> i, d |-> 1]
PInf == [k |-> "inf", n |-> 1, d |-> 0]
NInf == [k |-> "inf", n |-> -1, d |-> 0]
NaN == [k |-> "nan", n |-> 0, d |-> 0]

IsNaN(a) == a.k = "nan"

\* sign of a float that is not NaN
Sgn(a) == IF a.n > 0 THEN 1 ELSE IF a.n < 0 THEN -1 ELSE 0

\* a * b in IEEE arithmetic: 0 * inf is NaN
FMul(a, b) ==
    IF IsNaN(a) \/ IsNaN(b) THEN NaN
    ELSE IF a.k = "inf" \/ b.k = "inf"
         THEN IF Sgn(a) * Sgn(b) = 0 THEN NaN
              ELSE IF Sgn(a) * Sgn(b) > 0 THEN PInf ELSE NInf
         ELSE Fin(a.n * b.n, a.d * b.d)

\* a / b in IEEE arithmetic: x / 0 is +-inf for x # 0, 0 / 0 is NaN
FDiv(a, b) ==
    IF IsNaN(a) \/ IsNaN(b) THEN NaN
    ELSE IF a.k = "inf"
         THEN IF b.k = "inf" THEN NaN
              ELSE IF Sgn(a) * (IF Sgn(b) < 0 THEN -1 ELSE 1) > 0
                   THEN PInf ELSE NInf
    ELSE IF b.k = "inf" THEN F(0)
    ELSE IF b.n = 0
         THEN IF a.n = 0 THEN NaN ELSE IF a.n > 0 THEN PInf ELSE NInf
         ELSE Fin(a.n * b.d, a.d * b.n)

FNeg(a) == IF IsNaN(a) THEN NaN ELSE [a EXCEPT !.n = -a.n]

\* a + b
FAdd(a, b) ==
    IF IsNaN(a) \/ IsNaN(b) THEN NaN
    ELSE IF a.k = "inf"
         THEN IF b.k = "inf" /\ Sgn(a) # Sgn(b) THEN NaN ELSE a
    ELSE IF b.k = "inf" THEN b
    ELSE Fin(a.n * b.d + b.n * a.d, a.d * b.d)

FSub(a, b) == FAdd(a, FNeg(b))

\* a < b; every comparison with NaN is false
FLess(a, b) ==
    IF IsNaN(a) \/ IsNaN(b) THEN FALSE
    ELSE IF a.k = "inf" THEN a.n < 0 /\ ~(b.k = "inf" /\ b.n < 0)
    ELSE IF b.k = "inf" THEN b.n > 0
    ELSE a.n * b.d < b.n * a.d

FLeq(a, b) == FLess(a, b) \/ (~IsNaN(a) /\ ~IsNaN(b) /\ a = b)

FAbs(a) == IF IsNaN(a) THEN NaN ELSE [a EXCEPT !.n = Abs(a.n)]

\* integer square root of a perfect square
ISqrt(x) == CHOOSE r \in 0..x : r * r = x

\* std::sqrt on the values the model produces (squares of rationals)
FSqrt(a) ==
    IF IsNaN(a) THEN NaN
    ELSE IF a.k = "inf" THEN IF a.n > 0 THEN PInf ELSE NaN
    ELSE Fin(ISqrt(a.n), ISqrt(a.d))

\* float3 helpers
V3(x, y, z) == <<F(x), F(y), F(z)>>
VSub(a, b) == <<FSub(a[1], b[1]), FSub(a[2], b[2]), FSub(a[3], b[3])>>
VNorm(a) ==
    FSqrt(FAdd(FAdd(FMul(a[1], a[1]), FMul(a[2], a[2])), FMul(a[3], a[3])))
VCross(a, b) ==
    << FSub(FMul(a[2], b[3]), FMul(a[3], b[2])),
       FSub(FMul(a[3], b[1]), FMul(a[1], b[3])),
       FSub(FMul(a[1], b[2]), FMul(a[2], b[1])) >>

\* ------------------------------------------------------------------------
\* Tensors (open3d::core::Tensor): device, dtype, shape and flat row data.
\* over32 stands for a first dimension above
\* std::numeric_limits<uint32_t>::max(), whose rows are not enumerated.
\* ------------------------------------------------------------------------
Tensor(device, dtype, shape, data) ==
    [device |-> device, dtype |-> dtype, shape |-> shape, data |-> data,
     over32 |-> FALSE]

\* element i of a zero-based array
At(a, i) == a[i + 1]

\* SizeVector::NumElements of the shape without its last dimension
RECURSIVE NumElements(_)
NumElements(shape) ==
    IF Len(shape) = 0 THEN 1 ELSE Head(shape) * NumElements(Tail(shape))

PopBack(shape) == SubSeq(shape, 1, Len(shape) - 1)

\* all sequences over S of length 0..n
RECURSIVE SeqsUpTo(_, _)
SeqsUpTo(S, n) ==
    IF n = 0 THEN {<< >>}
    ELSE LET T == SeqsUpTo(S, n - 1)
         IN  T \cup {Append(t, x) : t \in {u \in T : Len(u) = n - 1}, x \in S}

\* core::Device of the scene (impl_->tensor_device, the CPU)
tensor_device == "CPU:0"

\* RTC_INVALID_GEOMETRY_ID, the uint32 value 0xFFFFFFFF, written as the
\* integer with the same bit pattern
RTC_INVALID_GEOMETRY_ID == -1

RTC_GEOMETRY_TYPE_TRIANGLE == "RTC_GEOMETRY_TYPE_TRIANGLE"

\* ------------------------------------------------------------------------
\* Inputs the callers pass
\* ------------------------------------------------------------------------
\* rays (org.xyz, dir.xyz): one from x = 0 in the probe direction, one from
\* x = 2 along -x; points at x = 0 and x = 2
RayChoices == { <<0, 0, 0, 1, 1, 1>>, <<2, 0, 0, -1, 0, 0>> }

PointChoices == { <<0, 0, 0>>, <<2, 0, 0>> }

RayTensors ==
    { Tensor(tensor_device, "Float32", <<Len(d), 6>>, d) :
        d \in SeqsUpTo(RayChoices, MaxRays) }

PointTensors ==
    { Tensor(tensor_device, "Float32", <<Len(d), 3>>, d) :
        d \in SeqsUpTo(PointChoices, MaxPoints) }

\* tensors that violate one precondition each: device, rank, last
\* dimension, dtype
BadTensors(last_dim, row) ==
    { Tensor("CUDA:0", "Float32", <<1, last_dim>>, <<row>>),
      Tensor(tensor_device, "Float32", <<last_dim>>, <<row>>),
      Tensor(tensor_device, "Float32", << >>, << >>),
      Tensor(tensor_device, "Float32", <<1, last_dim - 1>>, <<row>>),
      Tensor(tensor_device, "Float64", <<1, last_dim>>, <<row>>) }

RayInputs == RayTensors \cup BadTensors(6, <<0, 0, 0, 1, 1, 1>>)

PointInputs == PointTensors \cup BadTensors(3, <<0, 0, 0>>)

\* A triangle of the world lies in a plane x = p and is large against the
\* query domain: vertices (p,-4,-4), (p,4,-4), (p,0,4).
PlaneVerts(p) == << <<p, -4, -4>>, <<p, 4, -4>>, <<p, 0, 4>> >>

\* a degenerate (zero area) triangle in the plane x = p
LineVerts(p) == << <<p, 0, 0>>, <<p, 1, 0>>, <<p, 2, 0>> >>

MeshTensors(verts, tris) ==
    [vertices |-> Tensor(tensor_device, "Float32", <<Len(verts), 3>>, verts),
     triangles |-> Tensor(tensor_device, "UInt32", <<Len(tris), 3>>, tris)]

\* a closed slab 1 <= x <= 3: two walls
SlabMesh ==
    MeshTensors(PlaneVerts(1) \o PlaneVerts(3), << <<0, 1, 2>>, <<3, 4, 5>> >>)

\* two triangles in the same plane x = 2, which a ray meets at the same t;
\* the second one is degenerate and has the geometric normal zero
EdgeMesh ==
    MeshTensors(PlaneVerts(2) \o LineVerts(2), << <<0, 1, 2>>, <<3, 4, 5>> >>)

MeshChoices == {SlabMesh, EdgeMesh}

\* ------------------------------------------------------------------------
\* The acceleration provider (embree), by its documented behaviour.
\* An RTCScene is the attached geometries with the buffers the provider
\* owns (geoms), the index built by the last commit (bvh) and the
\* traversal order of that index (order).
\* ------------------------------------------------------------------------
TraversalOrders == {"fwd", "rev"}

rtcNewScene == [geoms |-> << >>, bvh |-> << >>, order |-> "fwd"]

\* rtcSetNewGeometryBuffer + memcpy + rtcCommitGeometry: a geometry that
\* owns copies of the caller's rows
rtcNewGeometry(vertex_rows, index_rows) ==
    [vertex |-> vertex_rows, index |-> index_rows]

\* the id rtcAttachGeometry assigns: the lowest unused one
rtcAttachGeometryId(scene) == Len(scene.geoms)

rtcAttachGeometry(scene, geom) ==
    [scene EXCEPT !.geoms = Append(@, geom)]

\* rtcCommitScene: the index now holds every attached geometry
rtcCommitScene(scene, order) ==
    [scene EXCEPT !.bvh = scene.geoms, !.order = order]

Row3(r) == V3(r[1], r[2], r[3])

\* the three corners of primitive primID in the buffers
TriangleCorners(vertices, triangles, primID) ==
    LET tri == At(triangles, primID)
    IN  << Row3(At(vertices, tri[1])), Row3(At(vertices, tri[2])),
           Row3(At(vertices, tri[3])) >>

\* (geomID, primID) of every primitive of the index in storage order
RECURSIVE PrimList(_, _)
PrimList(bvh, g) ==
    IF g >= Len(bvh) THEN << >>
    ELSE [i \in 1..Len(At(bvh, g).index) |-> <<g, i - 1>>]
         \o PrimList(bvh, g + 1)

Reverse(s) == [i \in 1..Len(s) |-> s[Len(s) + 1 - i]]

\* each element twice
Twice(s) == [i \in 1..(2 * Len(s)) |-> s[(i + 1) \div 2]]

\* the primitives in the order a traversal of the index meets them: in
\* storage order, or in the reverse order in an index built with spatial
\* splits, where two leaves refer to one primitive and a traversal meets
\* each primitive twice
Traversal(scene) ==
    IF scene.order = "fwd" THEN PrimList(scene.bvh, 0)
    ELSE Twice(Reverse(PrimList(scene.bvh, 0)))

\* The candidate hit of a ray on one primitive: the ray crosses the plane
\* x = p of the primitive at t = (p - org_x) / dir_x.
PrimT(scene, gp, ray) ==
    LET g == At(scene.bvh, gp[1])
        v0 == At(g.vertex, At(g.index, gp[2])[1])
    IN  FDiv(FSub(F(v0[1]), ray.org[1]), ray.dir[1])

\* Ng, the unnormalized geometric normal (v1 - v0) x (v2 - v0)
PrimNg(scene, gp) ==
    LET g == At(scene.bvh, gp[1])
        c == TriangleCorners(g.vertex, g.index, gp[2])
    IN  VCross(VSub(c[2], c[1]), VSub(c[3], c[1]))

\* a candidate is valid for tnear < t <= tfar
ValidT(ray, t) ==
    ray.dir[1] # F(0) /\ FLess(ray.tnear, t) /\ FLeq(t, ray.tfar)

\* one ray of rtcIntersect1M without a filter: the nearest hit wins; a hit
\* is valid for tnear < t <= tfar and shortens tfar.  The traversal from
\* trav[k] on gives the ray as it ends and the position in trav of the
\* primitive of the last valid hit, best (0 when there was none).
RECURSIVE IntersectFrom(_, _, _, _, _)
IntersectFrom(scene, trav, k, ray, best) ==
    IF k > Len(trav) THEN <<ray, best>>
    ELSE LET t == PrimT(scene, trav[k], ray)
         IN  IF ValidT(ray, t)
             THEN IntersectFrom(scene, trav, k + 1, [ray EXCEPT !.tfar = t], k)
             ELSE IntersectFrom(scene, trav, k + 1, ray, best)

\* the hit the provider reports on primitive gp
ProviderHit(scene, gp) ==
    [geomID |-> gp[1], primID |-> gp[2], u |-> Fin(1, 4), v |-> Fin(1, 2),
     Ng |-> PrimNg(scene, gp)]

\* the ray/hit record after the traversal ended with r = <<ray, best>>; a
\* miss leaves the record as the caller initialised it
RayHitAfter(scene, trav, rh, r) ==
    IF r[2] = 0 THEN rh
    ELSE [ray |-> r[1], hit |-> ProviderHit(scene, trav[r[2]])]

rtcIntersect1(scene, rh) ==
    RayHitAfter(scene, Traversal(scene), rh,
                IntersectFrom(scene, Traversal(scene), 1, rh.ray, 0))

\* rtcIntersect1M without a filter on the first M records of the buffer
rtcIntersect1M(scene, rayhits, M) ==
    [j \in 1..Len(rayhits) |->
        IF j <= M THEN rtcIntersect1(scene, rayhits[j]) ELSE rayhits[j]]

\* the candidates the provider hands to a filter for one ray, in traversal
\* order; the filter rejects each, so tfar never shortens
CandidatesFrom(scene, ray) ==
    LET trav == Traversal(scene)
        all == [k \in 1..Len(trav) |->
                   [geomID |-> trav[k][1], primID |-> trav[k][2],
                    t |-> PrimT(scene, trav[k], ray)]]
    IN  SelectSeq(all, LAMBDA h : ValidT(ray, h.t))

\* ------------------------------------------------------------------------
\* RaycastingScene::Impl.  An execution record E carries the fields of
\* Impl through one public call: scene_committed, the RTCScene, the log of
\* provider calls made so far, the status of the call ("ok", "error" after
\* utility::LogError raised, "fault" after a trap) and env, what the
\* environment decides during the call: whether the provider reports an
\* error while committing, the traversal order a commit produces, the
\* effect of an integer division by zero, the content of uninitialised
\* memory.
\* ------------------------------------------------------------------------
Min(a, b) == IF a < b THEN a ELSE b

SetAt(a, i, x) == [a EXCEPT ![i + 1] = x]

\* utility::LogError raises: the call ends with an error
LogError(E, what) == [E EXCEPT !.status = "error", !.what = what]

EmbreeError == <<"embree error">>

\* error function called by embree
ErrorFunction(E) == LogError(E, EmbreeError)

Logged(E, entry) == [E EXCEPT !.calls = Append(@, entry)]

\* CommitIfNeeded that sets the flag and leaves the index as it is
CommitIfNeeded_FlagOnly(E) ==
    IF E.committed THEN E ELSE [E EXCEPT !.committed = TRUE]

\* CommitIfNeeded that commits whatever the flag says
CommitIfNeeded_Always(E) ==
    LET E1 == Logged(E, [fn |-> "rtcCommitScene"])
    IN  IF E.env.commit_fails THEN ErrorFunction(E1)
        ELSE [E1 EXCEPT !.scene = rtcCommitScene(@, E.env.order),
                        !.committed = TRUE]

\* CommitIfNeeded that sets the flag before it calls the provider
CommitIfNeeded_FlagFirst(E) ==
    IF E.committed THEN E
    ELSE LET E1 == [Logged(E, [fn |-> "rtcCommitScene"]) EXCEPT
                       !.committed = TRUE]
         IN  IF E.env.commit_fails THEN ErrorFunction(E1)
             ELSE [E1 EXCEPT !.scene = rtcCommitScene(@, E.env.order)]

\* if (!scene_committed) { rtcCommitScene(scene); scene_committed = true; }
CommitIfNeeded(E) ==
    IF E.committed THEN E
    ELSE LET E1 == Logged(E, [fn |-> "rtcCommitScene"])
         IN  IF E.env.commit_fails THEN ErrorFunction(E1)
             ELSE [E1 EXCEPT !.scene = rtcCommitScene(@, E.env.order),
                             !.committed = TRUE]

\* utility::DivUp for a positive divisor
DivUp(x, y) == (x + y - 1) \div y

\* a value-initialised RTCRayHit
ZeroRayHit ==
    [ray |-> [org |-> V3(0, 0, 0), dir |-> V3(0, 0, 0), tnear |-> F(0),
              tfar |-> F(0), id |-> 0],
     hit |-> [geomID |-> 0, primID |-> 0, u |-> F(0), v |-> F(0),
              Ng |-> V3(0, 0, 0)]]

\* elements of a result tensor that was allocated and never written: a
\* float, an id
Unset == [k |-> "unset", n |-> 0, d |-> 0]

UnsetId == RTC_INVALID_GEOMETRY_ID - 1

\* what one intersect call saw: the committed flag, the geometries of the
\* index, the size of the working buffer and the ray records it was handed
IntersectEntry(E, rayhits, M) ==
    [fn |-> "rtcIntersect1M", committed |-> E.committed,
     index |-> Len(E.scene.bvh), M |-> M, size |-> Len(rayhits),
     rays |-> [j \in 1..M |-> rayhits[j].ray]]

\* the record of a ray whose hit.geomID is not reset
CastRaysFill_NoReset(LINE_INTERSECTION, rh, r, id) ==
    [ray |-> [org |-> V3(r[1], r[2], r[3]),
              dir |-> IF LINE_INTERSECTION
                      THEN VSub(V3(r[4], r[5], r[6]), V3(r[1], r[2], r[3]))
                      ELSE V3(r[4], r[5], r[6]),
              tnear |-> F(0),
              tfar |-> IF LINE_INTERSECTION THEN F(1) ELSE PInf,
              id |-> id],
     hit |-> rh.hit]

\* lines 233-259: the record of input ray i of CastRays
CastRaysFill(LINE_INTERSECTION, rh, r, id) ==
    [ray |-> [org |-> V3(r[1], r[2], r[3]),
              dir |-> IF LINE_INTERSECTION
                      THEN VSub(V3(r[4], r[5], r[6]), V3(r[1], r[2], r[3]))
                      ELSE V3(r[4], r[5], r[6]),
              tnear |-> F(0),
              tfar |-> IF LINE_INTERSECTION THEN F(1) ELSE PInf,
              id |-> id],
     hit |-> [rh.hit EXCEPT !.geomID = RTC_INVALID_GEOMETRY_ID]]

\* lines 273-278: the reported normal times 1 / its length
NormalizedNg(Ng) ==
    LET inv_norm == FDiv(F(1), VNorm(Ng))
    IN  <<FMul(Ng[1], inv_norm), FMul(Ng[2], inv_norm), FMul(Ng[3], inv_norm)>>

\* lines 265-287: the outputs of slot idx from one ray/hit record
CastRaysStore(out, rh, idx) ==
    IF rh.hit.geomID # RTC_INVALID_GEOMETRY_ID
    THEN [t_hit |-> SetAt(out.t_hit, idx, rh.ray.tfar),
          geometry_ids |-> SetAt(out.geometry_ids, idx, rh.hit.geomID),
          primitive_ids |-> SetAt(out.primitive_ids, idx, rh.hit.primID),
          primitive_uvs |-> SetAt(out.primitive_uvs, idx, <<rh.hit.u, rh.hit.v>>),
          primitive_normals |->
              SetAt(out.primitive_normals, idx, NormalizedNg(rh.hit.Ng))]
    ELSE [t_hit |-> SetAt(out.t_hit, idx, rh.ray.tfar),
          geometry_ids |-> SetAt(out.geometry_ids, idx, RTC_INVALID_GEOMETRY_ID),
          primitive_ids |-> SetAt(out.primitive_ids, idx, RTC_INVALID_GEOMETRY_ID),
          primitive_uvs |-> SetAt(out.primitive_uvs, idx, <<F(0), F(0)>>),
          primitive_normals |-> SetAt(out.primitive_normals, idx, V3(0, 0, 0))]

\* rh.ray.id = i - start_idx
CastRaysRayId(i, start_idx) == i - start_idx

\* the slot without the offset of the batch
CastRaysSlot_NoOffset(ray_id, start_idx) == ray_id

\* size_t idx = rh.ray.id + start_idx
CastRaysSlot(ray_id, start_idx) == ray_id + start_idx

RECURSIVE CastRaysFillLoop(_, _, _, _, _, _)
CastRaysFillLoop(LI, rayhits, rays, i, start_idx, end_idx) ==
    IF i >= end_idx THEN rayhits
    ELSE CastRaysFillLoop(LI,
             SetAt(rayhits, i - start_idx,
                   CastRaysFill(LI, At(rayhits, i - start_idx), At(rays, i),
                                CastRaysRayId(i, start_idx))),
             rays, i + 1, start_idx, end_idx)

RECURSIVE CastRaysStoreLoop(_, _, _, _, _)
CastRaysStoreLoop(out, rayhits, i, start_idx, end_idx) ==
    IF i >= end_idx THEN out
    ELSE LET rh == At(rayhits, i - start_idx)
         IN  CastRaysStoreLoop(
                 CastRaysStore(out, rh, CastRaysSlot(rh.ray.id, start_idx)),
                 rayhits, i + 1, start_idx, end_idx)

\* lines 229-289: batch n and the ones after it
RECURSIVE CastRaysBatches(_, _, _, _, _, _, _, _)
CastRaysBatches(LI, E, rayhits, out, rays, num_rays, n, num_batches) ==
    IF n >= num_batches THEN [E |-> E, out |-> out]
    ELSE LET start_idx == n * Len(rayhits)
             end_idx == Min(num_rays, (n + 1) * Len(rayhits))
             filled == CastRaysFillLoop(LI, rayhits, rays, start_idx,
                                        start_idx, end_idx)
             E1 == Logged(E, IntersectEntry(E, filled, end_idx - start_idx))
             traced == rtcIntersect1M(E.scene, filled, end_idx - start_idx)
         IN  CastRaysBatches(LI, E1, traced,
                 CastRaysStoreLoop(out, traced, start_idx, start_idx, end_idx),
                 rays, num_rays, n + 1, num_batches)

\* the result tensors CastRays allocates
CastRaysResult(num_rays) ==
    [t_hit |-> [i \in 1..num_rays |-> Unset],
     geometry_ids |-> [i \in 1..num_rays |-> UnsetId],
     primitive_ids |-> [i \in 1..num_rays |-> UnsetId],
     primitive_uvs |-> [i \in 1..num_rays |-> <<Unset, Unset>>],
     primitive_normals |-> [i \in 1..num_rays |-> <<Unset, Unset, Unset>>]]

\* the integer division by zero in utility::DivUp(num_rays, 0) traps
DivUpTraps(E, size) == size = 0 /\ E.env.div0 = "trap"

Trap(E) == [E EXCEPT !.status = "fault"]

\* the quotient without the rounding up
NumBatches_RoundsDown(num_rays, size) ==
    IF size = 0 THEN 0 ELSE num_rays \div size

\* num_batches of lines 227 and 319: where the division by zero does not
\* trap, its quotient and remainder are 0
NumBatches(num_rays, size) ==
    IF size = 0 THEN 0 ELSE DivUp(num_rays, size)

\* RaycastingScene::Impl::CastRays<LINE_INTERSECTION>
Impl_CastRays(LI, E0, rays, num_rays, max_batch_size, out0) ==
    LET E == CommitIfNeeded(E0)
        rayhits == [j \in 1..Min(num_rays, max_batch_size) |-> ZeroRayHit]
    IN  IF E.status # "ok" THEN [E |-> E, out |-> out0]
        ELSE IF DivUpTraps(E, Len(rayhits)) THEN [E |-> Trap(E), out |-> out0]
        ELSE CastRaysBatches(LI, E, rayhits, out0, rays, num_rays, 0,
                             NumBatches(num_rays, Len(rayhits)))

\* one invocation of the filter as the trace records it: the ray id, the
\* candidate (geomID, primID, t), whether it was counted, valid[ui] at
\* return, and the last-seen triples and the counts at return
FilterEvent(ray_id, hit, tfar, counted, valid, prev, counts) ==
    <<ray_id, hit.geomID, hit.primID, tfar, counted, valid, prev, counts>>

\* the filter that leaves a candidate it counted valid
FilterCounted_StaysValid(ctx, ray_id, hit, tfar, prev, counts) ==
    [previous_geom_prim_ID_tfar |-> prev, intersections |-> counts,
     valid |-> -1,
     filtered |-> Append(ctx.filtered,
                     FilterEvent(ray_id, hit, tfar, TRUE, -1, prev, counts))]

\* the context after the filter counted the candidate
FilterCounted(ctx, ray_id, hit, tfar, prev, counts) ==
    [previous_geom_prim_ID_tfar |-> prev, intersections |-> counts,
     valid |-> 0,
     filtered |-> Append(ctx.filtered,
                     FilterEvent(ray_id, hit, tfar, TRUE, 0, prev, counts))]

\* the filter that records the candidate it ignored as the last seen
FilterIgnored_UpdatesTriple(ctx, ray_id, hit, tfar) ==
    [ctx EXCEPT !.valid = 0,
                !.previous_geom_prim_ID_tfar =
                    SetAt(@, ray_id, <<hit.geomID, hit.primID, tfar>>),
                !.filtered = Append(@,
                     FilterEvent(ray_id, hit, tfar, FALSE, 0,
                         SetAt(ctx.previous_geom_prim_ID_tfar, ray_id,
                               <<hit.geomID, hit.primID, tfar>>),
                         ctx.intersections))]

\* the context after the filter ignored the candidate
FilterIgnored(ctx, ray_id, hit, tfar) ==
    [ctx EXCEPT !.valid = 0,
                !.filtered = Append(@,
                     FilterEvent(ray_id, hit, tfar, FALSE, 0,
                                 ctx.previous_geom_prim_ID_tfar,
                                 ctx.intersections))]

\* the filter that counts whenever the geometry, the primitive or t changes
CountIntersectionsFunc_AnyDiffers(ctx, ray_id, hit, tfar) ==
    IF At(ctx.previous_geom_prim_ID_tfar, ray_id)[1] # hit.geomID
       \/ At(ctx.previous_geom_prim_ID_tfar, ray_id)[2] # hit.primID
       \/ At(ctx.previous_geom_prim_ID_tfar, ray_id)[3] # tfar
    THEN FilterCounted(ctx, ray_id, hit, tfar,
             SetAt(ctx.previous_geom_prim_ID_tfar, ray_id,
                   <<hit.geomID, hit.primID, tfar>>),
             SetAt(ctx.intersections, ray_id,
                   At(ctx.intersections, ray_id) + 1))
    ELSE FilterIgnored(ctx, ray_id, hit, tfar)

\* the filter that counts whenever the (geometry, primitive) pair changes
CountIntersectionsFunc_PairDiffers(ctx, ray_id, hit, tfar) ==
    IF At(ctx.previous_geom_prim_ID_tfar, ray_id)[1] # hit.geomID
       \/ At(ctx.previous_geom_prim_ID_tfar, ray_id)[2] # hit.primID
    THEN FilterCounted(ctx, ray_id, hit, tfar,
             SetAt(ctx.previous_geom_prim_ID_tfar, ray_id,
                   <<hit.geomID, hit.primID, tfar>>),
             SetAt(ctx.intersections, ray_id,
                   At(ctx.intersections, ray_id) + 1))
    ELSE FilterIgnored(ctx, ray_id, hit, tfar)

\* CountIntersectionsFunc for one active ray of the packet: ctx is the
\* CountIntersectionsContext (previous_geom_prim_ID_tfar, intersections)
\* with valid[ui] and the trace, ray_id = ray.id, hit the candidate,
\* tfar = ray.tfar (the candidate's t).
CountIntersectionsFunc(ctx, ray_id, hit, tfar) ==
    IF At(ctx.previous_geom_prim_ID_tfar, ray_id)[1] # hit.geomID
       \/ (At(ctx.previous_geom_prim_ID_tfar, ray_id)[2] # hit.primID
           /\ At(ctx.previous_geom_prim_ID_tfar, ray_id)[3] # tfar)
    THEN FilterCounted(ctx, ray_id, hit, tfar,
             SetAt(ctx.previous_geom_prim_ID_tfar, ray_id,
                   <<hit.geomID, hit.primID, tfar>>),
             SetAt(ctx.intersections, ray_id,
                   At(ctx.intersections, ray_id) + 1))
    ELSE FilterIgnored(ctx, ray_id, hit, tfar)

\* the ray after the filter returned: a hit the filter left valid is
\* accepted and ends the ray at t, a rejected one leaves the ray as it was
AfterFilter(ctx, ray, t) ==
    IF ctx.valid = 0 THEN ray ELSE [ray EXCEPT !.tfar = t]

\* one ray of rtcIntersect1M with context.filter = CountIntersectionsFunc:
\* the filter runs, with valid[ui] = -1, for every primitive from k on
\* that the ray meets within tnear < t <= tfar
RECURSIVE FilterCandidates(_, _, _, _, _)

\* the traversal goes on after the filter returned the context c
FilterNext(scene, trav, k, c, ray, t) ==
    FilterCandidates(scene, trav, k + 1, c, AfterFilter(c, ray, t))

\* primitive trav[k], which the line of the ray meets at t
FilterCandidate(scene, trav, k, ctx, ray, t) ==
    IF ValidT(ray, t)
    THEN FilterNext(scene, trav, k,
             CountIntersectionsFunc([ctx EXCEPT !.valid = -1], ray.id,
                 [geomID |-> trav[k][1], primID |-> trav[k][2]], t),
             ray, t)
    ELSE FilterCandidates(scene, trav, k + 1, ctx, ray)

FilterCandidates(scene, trav, k, ctx, ray) ==
    IF k > Len(trav) THEN ctx
    ELSE FilterCandidate(scene, trav, k, ctx, ray,
                         PrimT(scene, trav[k], ray))

\* rtcIntersect1M with context.filter = CountIntersectionsFunc on records
\* j..M of the buffer
RECURSIVE rtcIntersect1MFiltered(_, _, _, _, _)
rtcIntersect1MFiltered(scene, ctx, rayhits, j, M) ==
    IF j > M THEN ctx
    ELSE rtcIntersect1MFiltered(scene,
             FilterCandidates(scene, Traversal(scene), 1, ctx, rayhits[j].ray),
             rayhits, j + 1, M)

\* lines 326-340: the record of input ray i of CountIntersections
CountIntersectionsFill(rh, r, i) ==
    [ray |-> [org |-> V3(r[1], r[2], r[3]), dir |-> V3(r[4], r[5], r[6]),
              tnear |-> F(0), tfar |-> PInf, id |-> i],
     hit |-> [rh.hit EXCEPT !.geomID = RTC_INVALID_GEOMETRY_ID]]

\* the ray id that is the position in the chunk
CountIntersectionsRayId_InChunk(i, start_idx) == i - start_idx

\* line 338: rh.ray.id = i, the index of the ray in the input
CountIntersectionsRayId(i, start_idx) == i

RECURSIVE CountIntersectionsFillLoop(_, _, _, _, _)
CountIntersectionsFillLoop(rayhits, rays, i, start_idx, end_idx) ==
    IF i >= end_idx THEN rayhits
    ELSE CountIntersectionsFillLoop(
             SetAt(rayhits, i - start_idx,
                   CountIntersectionsFill(At(rayhits, i - start_idx),
                       At(rays, i), CountIntersectionsRayId(i, start_idx))),
             rays, i + 1, start_idx, end_idx)

\* lines 321-345: batch n and the ones after it
RECURSIVE CountIntersectionsBatches(_, _, _, _, _, _, _)
CountIntersectionsBatches(E, rayhits, ctx, rays, num_rays, n, num_batches) ==
    IF n >= num_batches THEN [E |-> E, out |-> ctx.intersections, ctx |-> ctx]
    ELSE LET start_idx == n * Len(rayhits)
             end_idx == Min(num_rays, (n + 1) * Len(rayhits))
             filled == CountIntersectionsFillLoop(rayhits, rays, start_idx,
                                                  start_idx, end_idx)
             E1 == Logged(E, IntersectEntry(E, filled, end_idx - start_idx))
         IN  CountIntersectionsBatches(E1, filled,
                 rtcIntersect1MFiltered(E.scene, ctx, filled, 1,
                                        end_idx - start_idx),
                 rays, num_rays, n + 1, num_batches)

\* an array of n elements x
RECURSIVE Filled(_, _)
Filled(n, x) == IF n = 0 THEN << >> ELSE Append(Filled(n - 1, x), x)

\* lines 300-313: memset of the counts and the last-seen triples
CountIntersectionsContext(num_rays) ==
    [previous_geom_prim_ID_tfar |->
         Filled(num_rays,
                <<RTC_INVALID_GEOMETRY_ID, RTC_INVALID_GEOMETRY_ID, F(0)>>),
     intersections |-> Filled(num_rays, 0),
     valid |-> -1,
     filtered |-> << >>]

\* RaycastingScene::Impl::CountIntersections
Impl_CountIntersections(E0, rays, num_rays, max_batch_size, out0) ==
    LET E == CommitIfNeeded(E0)
        ctx == CountIntersectionsContext(num_rays)
        rayhits == [j \in 1..Min(num_rays, max_batch_size) |-> ZeroRayHit]
        R == CountIntersectionsBatches(E, rayhits, ctx, rays, num_rays, 0,
                                       NumBatches(num_rays, Len(rayhits)))
    IN  IF E.status # "ok" THEN [E |-> E, out |-> out0]
        ELSE IF DivUpTraps(E, Len(rayhits))
        THEN [E |-> Trap(E), out |-> ctx.intersections]
        ELSE [E |-> [R.E EXCEPT !.filtered = @ \o R.ctx.filtered],
              out |-> R.out]

\* closestPointTriangle of the embree tutorial on the triangles of the
\* world: the foot of the perpendicular from q on the plane x = v0.x
closestPointTriangle(q, v0, v1, v2) == <<v0[1], q[2], q[3]>>

\* ClosestPointResult(): the ids are set, p is not initialised
ClosestPointResult(E) ==
    [p |-> E.env.garbage, primID |-> RTC_INVALID_GEOMETRY_ID,
     geomID |-> RTC_INVALID_GEOMETRY_ID]

\* one invocation of ClosestPointFunc as the trace records it: the
\* primitive, its distance d, whether the callback returned true, the
\* query radius at entry and at return, and the ids of the result at return
VisitEvent(qr, geomID, primID, d, accepted, radius, result) ==
    <<geomID, primID, d, accepted, qr.radius, radius,
      <<result.geomID, result.primID>>>>

\* the query after the callback took the point p of the primitive
ClosestPointTaken(qr, geomID, primID, p, d) ==
    [qr EXCEPT !.radius = d,
               !.result = [p |-> p, primID |-> primID, geomID |-> geomID],
               !.visited = Append(@,
                   VisitEvent(qr, geomID, primID, d, TRUE, d,
                              [primID |-> primID, geomID |-> geomID]))]

\* the query after the callback returned false
ClosestPointKept(qr, geomID, primID, d) ==
    [qr EXCEPT !.visited = Append(@,
                   VisitEvent(qr, geomID, primID, d, FALSE, qr.radius,
                              qr.result))]

\* the closest point of primitive primID of geomID to the query position
PrimPoint(qr, geometry_ptrs, scene, geomID, primID) ==
    LET rec == At(geometry_ptrs, geomID)
        vertices == At(scene.geoms, rec[2].geom).vertex
        triangles == At(scene.geoms, rec[3].geom).index
        c == TriangleCorners(vertices, triangles, primID)
    IN  closestPointTriangle(qr.q, c[1], c[2], c[3])

\* the callback that also takes a point as near as the current radius
ClosestPointFunc_OrEqual(qr, geometry_ptrs, scene, geomID, primID) ==
    LET p == PrimPoint(qr, geometry_ptrs, scene, geomID, primID)
        d == VNorm(VSub(qr.q, p))
    IN  IF At(geometry_ptrs, geomID)[1] = RTC_GEOMETRY_TYPE_TRIANGLE
           /\ FLeq(d, qr.radius)
        THEN ClosestPointTaken(qr, geomID, primID, p, d)
        ELSE ClosestPointKept(qr, geomID, primID, d)

\* ClosestPointFunc: qr is the query (its position and radius) with the
\* result; geometry_ptrs and scene give the buffers behind the pointers
ClosestPointFunc(qr, geometry_ptrs, scene, geomID, primID) ==
    LET p == PrimPoint(qr, geometry_ptrs, scene, geomID, primID)
        d == VNorm(VSub(qr.q, p))
    IN  IF At(geometry_ptrs, geomID)[1] = RTC_GEOMETRY_TYPE_TRIANGLE
           /\ FLess(d, qr.radius)
        THEN ClosestPointTaken(qr, geomID, primID, p, d)
        ELSE ClosestPointKept(qr, geomID, primID, d)

\* the distance from the query position to the bounds of a primitive of
\* the index
BoundsDistance(scene, gp, q) ==
    LET g == At(scene.bvh, gp[1])
        c == TriangleCorners(g.vertex, g.index, gp[2])
    IN  FAbs(FSub(c[1][1], q[1]))

\* rtcPointQuery: the callback runs for every primitive whose bounds are
\* within the current radius, in traversal order
RECURSIVE PointQueryFrom(_, _, _, _, _)
PointQueryFrom(scene, geometry_ptrs, trav, k, qr) ==
    IF k > Len(trav) THEN qr
    ELSE IF FLeq(BoundsDistance(scene, trav[k], qr.q), qr.radius)
    THEN PointQueryFrom(scene, geometry_ptrs, trav, k + 1,
             ClosestPointFunc(qr, geometry_ptrs, scene, trav[k][1], trav[k][2]))
    ELSE PointQueryFrom(scene, geometry_ptrs, trav, k + 1, qr)

rtcPointQuery(scene, geometry_ptrs, qr) ==
    PointQueryFrom(scene, geometry_ptrs, Traversal(scene), 1, qr)

PointQueryEntry(E, q) ==
    [fn |-> "rtcPointQuery", committed |-> E.committed,
     index |-> Len(E.scene.bvh), M |-> 1, rays |-> <<q>>]

\* lines 358-379: query point i and the ones after it
RECURSIVE ClosestPointsLoop(_, _, _, _, _, _)
ClosestPointsLoop(E, geometry_ptrs, out, query_points, i, num_query_points) ==
    IF i >= num_query_points THEN [E |-> E, out |-> out]
    ELSE LET q == Row3(At(query_points, i))
             qr == rtcPointQuery(E.scene, geometry_ptrs,
                       [q |-> q, radius |-> PInf,
                        result |-> ClosestPointResult(E), visited |-> << >>])
         IN  ClosestPointsLoop(
                 [Logged(E, PointQueryEntry(E, q)) EXCEPT
                     !.visited = Append(@, qr.visited)],
                 geometry_ptrs,
                 [points |-> SetAt(out.points, i, qr.result.p),
                  geometry_ids |-> SetAt(out.geometry_ids, i, qr.result.geomID),
                  primitive_ids |-> SetAt(out.primitive_ids, i, qr.result.primID)],
                 query_points, i + 1, num_query_points)

\* the result tensors ComputeClosestPoints allocates
ClosestPointsResult(num_query_points) ==
    [points |-> [i \in 1..num_query_points |-> <<Unset, Unset, Unset>>],
     geometry_ids |-> [i \in 1..num_query_points |-> UnsetId],
     primitive_ids |-> [i \in 1..num_query_points |-> UnsetId]]

\* RaycastingScene::Impl::ComputeClosestPoints
Impl_ComputeClosestPoints(E0, geometry_ptrs, query_points, num_query_points, out0) ==
    LET E == CommitIfNeeded(E0)
    IN  IF E.status # "ok" THEN [E |-> E, out |-> out0]
        ELSE ClosestPointsLoop(E, geometry_ptrs, out0, query_points, 0,
                               num_query_points)

\* ------------------------------------------------------------------------
\* The public operations of RaycastingScene, as functions from the
\* execution record at entry to the record at exit and the value returned
\* ------------------------------------------------------------------------
\* what a call that raised returns
NoResult == << >>

\* the checks without the one of the dtype
AssertTensor_NoDtype(E, tensor, tensor_name, last_dim, device, min_ndim) ==
    IF tensor.device # device THEN LogError(E, <<tensor_name, "device">>)
    ELSE IF Len(tensor.shape) < min_ndim
         THEN LogError(E, <<tensor_name, "ndim">>)
    ELSE IF tensor.shape[Len(tensor.shape)] # last_dim
         THEN LogError(E, <<tensor_name, "last dimension">>)
    ELSE E

\* AssertTensorDtypeLastDimDeviceMinNDim: device, rank, last dimension and
\* dtype, in this order
AssertTensorDtypeLastDimDeviceMinNDim(E, tensor, tensor_name, last_dim, device, min_ndim) ==
    IF tensor.device # device THEN LogError(E, <<tensor_name, "device">>)
    ELSE IF Len(tensor.shape) < min_ndim
         THEN LogError(E, <<tensor_name, "ndim">>)
    ELSE IF tensor.shape[Len(tensor.shape)] # last_dim
         THEN LogError(E, <<tensor_name, "last dimension">>)
    ELSE IF tensor.dtype # "Float32" THEN LogError(E, <<tensor_name, "dtype">>)
    ELSE E

\* RaycastingScene::CastRays
Do_CastRays(E0, rays, max_batch) ==
    LET E == AssertTensorDtypeLastDimDeviceMinNDim(E0, rays, "rays", 6,
                                                   tensor_device, 2)
        num_rays == NumElements(PopBack(rays.shape))
    IN  IF E.status # "ok" THEN [E |-> E, out |-> NoResult]
        ELSE Impl_CastRays(FALSE, E, rays.data, num_rays, max_batch,
                           CastRaysResult(num_rays))

\* RaycastingScene::CountIntersections
Do_CountIntersections(E0, rays, max_batch) ==
    LET E == AssertTensorDtypeLastDimDeviceMinNDim(E0, rays, "rays", 6,
                                                   tensor_device, 2)
        num_rays == NumElements(PopBack(rays.shape))
    IN  IF E.status # "ok" THEN [E |-> E, out |-> NoResult]
        ELSE Impl_CountIntersections(E, rays.data, num_rays, max_batch,
                                     [i \in 1..num_rays |-> UnsetId])

\* RaycastingScene::ComputeClosestPoints
Do_ComputeClosestPoints(E0, geometry_ptrs, query_points) ==
    LET E == AssertTensorDtypeLastDimDeviceMinNDim(E0, query_points,
                 "query_points", 3, tensor_device, 2)
        num_query_points == NumElements(PopBack(query_points.shape))
    IN  IF E.status # "ok" THEN [E |-> E, out |-> NoResult]
        ELSE Impl_ComputeClosestPoints(E, geometry_ptrs, query_points.data,
                 num_query_points, ClosestPointsResult(num_query_points))

Failed(E) == [E |-> E, out |-> NoResult]

\* line 556: the norm of closest point - query point, column by column
DistanceOf(R, query_points) ==
    IF R.E.status # "ok" THEN Failed(R.E)
    ELSE [E |-> R.E,
          out |-> [i \in 1..Len(R.out.points) |->
                      VNorm(VSub(R.out.points[i], Row3(query_points.data[i])))]]

ComputeDistanceChecked(E, geometry_ptrs, query_points) ==
    IF E.status # "ok" THEN Failed(E)
    ELSE DistanceOf(Do_ComputeClosestPoints(E, geometry_ptrs, query_points),
                    query_points)

\* RaycastingScene::ComputeDistance
Do_ComputeDistance(E0, geometry_ptrs, query_points) ==
    ComputeDistanceChecked(
        AssertTensorDtypeLastDimDeviceMinNDim(E0, query_points,
            "query_points", 3, tensor_device, 2),
        geometry_ptrs, query_points)

\* the rays tensor of lines 571-580 and 602-611: origin = the point,
\* direction = Ones
ProbeRays(query_points, num_query_points) ==
    Tensor("CPU:0", "Float32", <<num_query_points, 6>>,
           [i \in 1..num_query_points |-> query_points.data[i] \o <<1, 1, 1>>])

\* the sign from "any crossing" instead of the parity
SignOfCount_AnyCrossing(x) == IF x # 0 THEN -1 ELSE 1

\* [](const int x) { return (x % 2) ? -1 : 1; }
SignOfCount(x) == IF x % 2 # 0 THEN -1 ELSE 1

\* lines 583-589: the distances times the signs of the counts
SignedOf(D, C) ==
    IF C.E.status # "ok" THEN Failed(C.E)
    ELSE [E |-> C.E,
          out |-> [i \in 1..Len(D.out) |->
                      FMul(D.out[i], F(SignOfCount(C.out[i])))]]

\* lines 571-581: the counts of the probe rays, after the distances
SignedAfterDistance(D, query_points, max_batch) ==
    IF D.E.status # "ok" THEN Failed(D.E)
    ELSE SignedOf(D, Do_CountIntersections(D.E,
                         ProbeRays(query_points,
                                   NumElements(PopBack(query_points.shape))),
                         max_batch))

ComputeSignedDistanceChecked(E, geometry_ptrs, query_points, max_batch) ==
    IF E.status # "ok" THEN Failed(E)
    ELSE SignedAfterDistance(
             Do_ComputeDistance(E, geometry_ptrs, query_points),
             query_points, max_batch)

\* RaycastingScene::ComputeSignedDistance
Do_ComputeSignedDistance(E0, geometry_ptrs, query_points, max_batch) ==
    ComputeSignedDistanceChecked(
        AssertTensorDtypeLastDimDeviceMinNDim(E0, query_points,
            "query_points", 3, tensor_device, 2),
        geometry_ptrs, query_points, max_batch)

\* the count itself instead of its parity
ParityOfCount_Count(x) == x

\* [](const int x) { return x % 2; }
ParityOfCount(x) == x % 2

\* lines 613-617: the counts mod 2, cast to float
OccupancyOf(C) ==
    IF C.E.status # "ok" THEN Failed(C.E)
    ELSE [E |-> C.E,
          out |-> [i \in 1..Len(C.out) |-> F(ParityOfCount(C.out[i]))]]

ComputeOccupancyChecked(E, query_points, max_batch) ==
    IF E.status # "ok" THEN Failed(E)
    ELSE OccupancyOf(Do_CountIntersections(E,
                         ProbeRays(query_points,
                                   NumElements(PopBack(query_points.shape))),
                         max_batch))

\* RaycastingScene::ComputeOccupancy
Do_ComputeOccupancy(E0, query_points, max_batch) ==
    ComputeOccupancyChecked(
        AssertTensorDtypeLastDimDeviceMinNDim(E0, query_points,
            "query_points", 3, tensor_device, 2),
        query_points, max_batch)

\* Tensor::AssertDevice, AssertShapeCompatible({nullopt, 3}), AssertDtype
AssertMeshTensor(E, tensor, tensor_name, dtype) ==
    IF tensor.device # tensor_device THEN LogError(E, <<tensor_name, "device">>)
    ELSE IF Len(tensor.shape) # 2 \/ tensor.shape[Len(tensor.shape)] # 3
         THEN LogError(E, <<tensor_name, "shape">>)
    ELSE IF tensor.dtype # dtype THEN LogError(E, <<tensor_name, "dtype">>)
    ELSE E

\* the record AddTriangles pushes: the type and the addresses of the
\* vertex and index buffer of geometry geom_id, which the provider owns
GeometryRecord(geom_id) ==
    <<RTC_GEOMETRY_TYPE_TRIANGLE, [geom |-> geom_id, buf |-> "vertex"],
      [geom |-> geom_id, buf |-> "index"]>>

\* AddTriangles that does not clear scene_committed
AddTrianglesBody_KeepsFlag(E, geometry_ptrs, vertices, triangles) ==
    LET geom == rtcNewGeometry(vertices.data, triangles.data)
        geom_id == rtcAttachGeometryId(E.scene)
    IN  [E |-> [Logged(E, [fn |-> "rtcAttachGeometry"]) EXCEPT
                   !.scene = rtcAttachGeometry(@, geom)],
         geometry_ptrs |-> Append(geometry_ptrs, GeometryRecord(geom_id)),
         out |-> geom_id]

\* AddTriangles that returns the size of the registry after the push
AddTrianglesBody_ReturnsSize(E, geometry_ptrs, vertices, triangles) ==
    LET geom == rtcNewGeometry(vertices.data, triangles.data)
        geom_id == rtcAttachGeometryId(E.scene)
    IN  [E |-> [Logged(E, [fn |-> "rtcAttachGeometry"]) EXCEPT
                   !.committed = FALSE,
                   !.scene = rtcAttachGeometry(@, geom)],
         geometry_ptrs |-> Append(geometry_ptrs, GeometryRecord(geom_id)),
         out |-> Len(geometry_ptrs) + 1]

\* lines 413-445 of AddTriangles, after the checks
AddTrianglesBody(E, geometry_ptrs, vertices, triangles) ==
    LET geom == rtcNewGeometry(vertices.data, triangles.data)
        geom_id == rtcAttachGeometryId(E.scene)
    IN  [E |-> [Logged(E, [fn |-> "rtcAttachGeometry"]) EXCEPT
                   !.committed = FALSE,
                   !.scene = rtcAttachGeometry(@, geom)],
         geometry_ptrs |-> Append(geometry_ptrs, GeometryRecord(geom_id)),
         out |-> geom_id]

\* RaycastingScene::AddTriangles(vertices, triangles)
Do_AddTriangles(E0, geometry_ptrs, vertices, triangles) ==
    LET E1 == AssertMeshTensor(E0, vertices, "vertices", "Float32")
        E2 == AssertMeshTensor(E1, triangles, "triangles", "UInt32")
    IN  IF E1.status # "ok"
        THEN [E |-> E1, geometry_ptrs |-> geometry_ptrs, out |-> NoResult]
        ELSE IF E2.status # "ok"
        THEN [E |-> E2, geometry_ptrs |-> geometry_ptrs, out |-> NoResult]
        ELSE AddTrianglesBody(E2, geometry_ptrs, vertices, triangles)

\* Tensor::To(dtype)
To(tensor, dtype) == [tensor EXCEPT !.dtype = dtype]

\* RaycastingScene::AddTriangles(mesh)
Do_AddTrianglesMesh(E0, geometry_ptrs, mesh) ==
    IF mesh.vertices.over32
    THEN [E |-> LogError(E0, <<"mesh", "vertices">>),
          geometry_ptrs |-> geometry_ptrs, out |-> NoResult]
    ELSE Do_AddTriangles(E0, geometry_ptrs, mesh.vertices,
                         To(mesh.triangles, "UInt32"))

\* pairs of tensors that violate one precondition of AddTriangles each
BadMeshInputs ==
    { [SlabMesh EXCEPT !.vertices.device = "CUDA:0"],
      [SlabMesh EXCEPT !.vertices.shape = <<3, 2>>],
      [SlabMesh EXCEPT !.vertices.shape = <<9>>],
      [SlabMesh EXCEPT !.vertices.dtype = "Float64"],
      [SlabMesh EXCEPT !.triangles.device = "CUDA:0"],
      [SlabMesh EXCEPT !.triangles.shape = <<1, 4>>],
      [SlabMesh EXCEPT !.triangles.dtype = "Int64"] }

\* TriangleMesh objects: triangles are Int64 by default; one mesh has
\* more than 2^32 - 1 vertices, one lives on another device
TriangleMeshes ==
    { [m EXCEPT !.triangles.dtype = "Int64"] : m \in MeshChoices }
    \cup { [SlabMesh EXCEPT !.vertices.over32 = TRUE],
           [SlabMesh EXCEPT !.vertices.device = "CUDA:0"],
           [SlabMesh EXCEPT !.vertices.dtype = "Float64"] }

\* ------------------------------------------------------------------------
\* PeerConnectionManager.h: the observers of a peer connection
\* ------------------------------------------------------------------------
\* std::promise<const webrtc::SessionDescriptionInterface*>::set_value: a
\* promise is the number of set_value calls made on it and the value the
\* first of them stored (a second one throws std::future_error and stores
\* nothing)
set_value(promise, v) ==
    [sets |-> promise.sets + 1,
     value |-> IF promise.sets = 0 THEN v ELSE promise.value]

\* SetLocalDescription / SetRemoteDescription that succeeds: the
\* description becomes the connection's, and a rollback drops the pending
\* offer
ApplyDescription(pc, side, type) ==
    IF type = "rollback"
    THEN [pc EXCEPT !.local_description = "null",
                    !.remote_description = "null"]
    ELSE IF side = "local" THEN [pc EXCEPT !.local_description = type]
    ELSE [pc EXCEPT !.remote_description = type]

\* PeerConnectionObserver::PeerConnectionObserver; created tells whether
\* the factory returned a connection (pc_.get()), and pc is that
\* connection as the observers use it: its ICE connection state, its
\* descriptions and whether Close() was called
PeerConnectionObserver(created) ==
    [life |-> "alive", pc_ |-> created,
     pc |-> [ice |-> "kIceConnectionNew", local_description |-> "null",
             remote_description |-> "null", closed |-> FALSE],
     ice_candidate_list_ |-> << >>, deleting_ |-> FALSE]

\* PeerConnectionObserver::OnIceConnectionChange: the observer afterwards
\* and whether a detached thread was started to call HangUp(peerid_)
Do_OnIceConnectionChange(o, state) ==
    IF state = "kIceConnectionFailed" \/ state = "kIceConnectionClosed"
    THEN [o |-> [o EXCEPT !.ice_candidate_list_ = << >>],
          detached |-> ~o.deleting_]
    ELSE [o |-> o, detached |-> FALSE]

\* ------------------------------------------------------------------------
\* State
\* ------------------------------------------------------------------------
VARIABLES
    scene_committed,   \* Impl::scene_committed
    scene,             \* Impl::scene, the RTCScene with the provider's state
    geometry_ptrs,     \* Impl::geometry_ptrs
    max_batch_size,    \* the batch size the build uses (MAX_BATCH_SIZE)
    op,                \* the last public call and its argument
    status,            \* "ok", "error" (it raised) or "fault" (it trapped)
    what,              \* the message of the error the last call raised
    out,               \* what the last call returned
    calls,             \* the provider calls the last call made
    filtered,          \* the filter invocations during the last call
    visited,           \* the closest-point callbacks during the last call
    before,            \* scene_committed, geometry_ptrs and the attached
                       \* geometries when the last call started, and
                       \* whether the call before it ended with an error
                       \* of the provider
    handles            \* the handles AddTriangles returned so far, each
                       \* with the rows it was given

VARIABLES
    peer_connectionobs_map_,  \* the peer ids PeerConnectionManager maps to
                              \* their observer
    observers,         \* the PeerConnectionObserver made for each peer id
    threads,           \* for each peer id, the detached threads its observer
                       \* started that have not run yet
    requests,          \* the create-offer / set-description requests
    pcm_status         \* "ok", or "fault" once a thread of the peer
                       \* connection manager trapped

pcmVars ==
    <<peer_connectionobs_map_, observers, threads, requests, pcm_status>>

sceneVars ==
    <<scene_committed, scene, geometry_ptrs, max_batch_size, op, status, what,
      out, calls, filtered, visited, before, handles>>

vars ==
    <<scene_committed, scene, geometry_ptrs, max_batch_size, op, status, what,
      out, calls, filtered, visited, before, handles, peer_connectionobs_map_,
      observers, threads, requests, pcm_status>>

\* the execution record of a call that starts in the current state
Entry(env) ==
    [committed |-> scene_committed, scene |-> scene, calls |-> << >>,
     status |-> "ok", what |-> << >>, env |-> env, filtered |-> << >>,
     visited |-> << >>]

DefaultEnv ==
    [commit_fails |-> FALSE, order |-> "fwd", div0 |-> "trap",
     garbage |-> V3(0, 0, 0)]

Snapshot ==
    [committed |-> scene_committed, geometry_ptrs |-> geometry_ptrs,
     attached |-> Len(scene.geoms), bvh |-> Len(scene.bvh),
     after_error |-> before.after_error]

\* the state after a call that ended with record E and value o
Returns(name, arg, E, o) ==
    /\ scene_committed' = E.committed
    /\ scene' = E.scene
    /\ op' = [name |-> name, arg |-> arg]
    /\ status' = E.status
    /\ what' = E.what
    /\ out' = IF E.status = "ok" THEN o ELSE NoResult
    /\ calls' = E.calls
    /\ filtered' = E.filtered
    /\ visited' = E.visited
    /\ before' = Snapshot
    /\ UNCHANGED max_batch_size
    /\ UNCHANGED pcmVars

Idle == [name |-> "idle", arg |-> << >>]

NoSnapshot ==
    [committed |-> FALSE, geometry_ptrs |-> << >>, attached |-> 0, bvh |-> 0,
     after_error |-> FALSE]

\* the values MAX_BATCH_SIZE takes: one ray per batch, and MaxBatch
BatchSizes == {1, MaxBatch}

\* RaycastingScene::RaycastingScene(), and
\* PeerConnectionManager::PeerConnectionManager(): no peer, no request
Init ==
    /\ scene_committed = FALSE
    /\ scene = rtcNewScene
    /\ geometry_ptrs = << >>
    /\ max_batch_size \in BatchSizes
    /\ op = Idle
    /\ status = "ok"
    /\ what = << >>
    /\ out = NoResult
    /\ calls = << >>
    /\ filtered = << >>
    /\ visited = << >>
    /\ before = NoSnapshot
    /\ handles = << >>
    /\ peer_connectionobs_map_ = {}
    /\ observers = Filled(MaxPeers, [PeerConnectionObserver(FALSE) EXCEPT
                                         !.life = "none"])
    /\ threads = Filled(MaxPeers, 0)
    /\ requests = << >>
    /\ pcm_status = "ok"

\* Calls on one scene do not overlap: a call starts when the caller has
\* the result of the previous one; nothing runs after a trap.
CanCall == op = Idle /\ status # "fault"

\* The choices of the environment that a call on n rows can observe in
\* the current state; the others are fixed: a commit fails or produces a
\* traversal order only when the scene is uncommitted (and an order
\* matters only when there is geometry), a division by zero happens only
\* for no rows, and uninitialised memory is read only when the scene has
\* no geometry.
CommitChoices ==
    IF scene_committed THEN {<<FALSE, scene.order>>}
    ELSE {<<TRUE, scene.order>>}
         \cup {<<FALSE, o>> : o \in IF Len(scene.geoms) = 0 THEN {"fwd"}
                                     ELSE TraversalOrders}

Div0Choices(n) == IF n = 0 THEN {"trap", "zero"} ELSE {DefaultEnv.div0}

GarbageChoices == {V3(0, 0, 0), <<NaN, NaN, NaN>>}

GarbageFor(with_garbage) ==
    IF with_garbage /\ Len(scene.geoms) = 0 THEN GarbageChoices
    ELSE {DefaultEnv.garbage}

EnvsFor(n, with_garbage) ==
    {[commit_fails |-> c[1], order |-> c[2], div0 |-> z, garbage |-> g] :
        c \in CommitChoices, z \in Div0Choices(n), g \in GarbageFor(with_garbage)}

\* the number of rows of an argument that passes the checks
Rows(tensor) ==
    IF Len(tensor.shape) = 2 THEN tensor.shape[1] ELSE 1

\* the caller keeps the handle a successful AddTriangles returns
Returned(R, m) ==
    IF R.E.status = "ok"
    THEN Append(handles, [handle |-> R.out, vertices |-> m.vertices.data,
                          triangles |-> m.triangles.data])
    ELSE handles

AddTriangles ==
    /\ CanCall
    /\ Len(geometry_ptrs) < MaxGeoms
    /\ \E m \in MeshChoices \cup BadMeshInputs :
        LET R == Do_AddTriangles(Entry(DefaultEnv), geometry_ptrs,
                                 m.vertices, m.triangles)
        IN  /\ geometry_ptrs' = R.geometry_ptrs
            /\ handles' = Returned(R, m)
            /\ Returns("AddTriangles", m, R.E, R.out)

AddTrianglesMesh ==
    /\ CanCall
    /\ Len(geometry_ptrs) < MaxGeoms
    /\ \E m \in TriangleMeshes :
        LET R == Do_AddTrianglesMesh(Entry(DefaultEnv), geometry_ptrs, m)
        IN  /\ geometry_ptrs' = R.geometry_ptrs
            /\ handles' = Returned(R, m)
            /\ Returns("AddTrianglesMesh", m, R.E, R.out)

CastRays ==
    /\ CanCall
    /\ \E rays \in RayInputs :
        \E env \in EnvsFor(Rows(rays), FALSE) :
            LET R == Do_CastRays(Entry(env), rays, max_batch_size)
            IN  /\ Returns("CastRays", rays, R.E, R.out)
                /\ UNCHANGED <<geometry_ptrs, handles>>

CountIntersections ==
    /\ CanCall
    /\ \E rays \in RayInputs :
        \E env \in EnvsFor(Rows(rays), FALSE) :
            LET R == Do_CountIntersections(Entry(env), rays, max_batch_size)
            IN  /\ Returns("CountIntersections", rays, R.E, R.out)
                /\ UNCHANGED <<geometry_ptrs, handles>>

ComputeClosestPoints ==
    /\ CanCall
    /\ \E query_points \in PointInputs :
        \E env \in EnvsFor(1, TRUE) :
            LET R == Do_ComputeClosestPoints(Entry(env), geometry_ptrs,
                                             query_points)
            IN  /\ Returns("ComputeClosestPoints", query_points, R.E, R.out)
                /\ UNCHANGED <<geometry_ptrs, handles>>

ComputeDistance ==
    /\ CanCall
    /\ \E query_points \in PointInputs :
        \E env \in EnvsFor(1, TRUE) :
            LET R == Do_ComputeDistance(Entry(env), geometry_ptrs,
                                        query_points)
            IN  /\ Returns("ComputeDistance", query_points, R.E, R.out)
                /\ UNCHANGED <<geometry_ptrs, handles>>

ComputeSignedDistance ==
    /\ CanCall
    /\ \E query_points \in PointInputs :
        \E env \in EnvsFor(Rows(query_points), TRUE) :
            LET R == Do_ComputeSignedDistance(Entry(env), geometry_ptrs,
                                              query_points, max_batch_size)
            IN  /\ Returns("ComputeSignedDistance", query_points, R.E, R.out)
                /\ UNCHANGED <<geometry_ptrs, handles>>

ComputeOccupancy ==
    /\ CanCall
    /\ \E query_points \in PointInputs :
        \E env \in EnvsFor(Rows(query_points), FALSE) :
            LET R == Do_ComputeOccupancy(Entry(env), query_points,
                                         max_batch_size)
            IN  /\ Returns("ComputeOccupancy", query_points, R.E, R.out)
                /\ UNCHANGED <<geometry_ptrs, handles>>

\* the caller takes the value (or the exception) of the call
Return ==
    /\ op # Idle
    /\ status # "fault"
    /\ op' = Idle
    /\ status' = "ok"
    /\ what' = << >>
    /\ out' = NoResult
    /\ calls' = << >>
    /\ filtered' = << >>
    /\ visited' = << >>
    /\ before' = [NoSnapshot EXCEPT
                      !.after_error = (status = "error" /\ what = EmbreeError)]
    /\ UNCHANGED <<scene_committed, scene, geometry_ptrs, max_batch_size,
                   handles>>
    /\ UNCHANGED pcmVars

Next ==
    \/ AddTriangles
    \/ AddTrianglesMesh
    \/ CastRays
    \/ CountIntersections
    \/ ComputeClosestPoints
    \/ ComputeDistance
    \/ ComputeSignedDistance
    \/ ComputeOccupancy
    \/ Return

Spec == Init /\ [][Next]_vars

\* ------------------------------------------------------------------------
\* PeerConnectionManager: the steps of its threads and of the connections.
\* Nothing runs once a thread has trapped; a connection calls its observer
\* on the signaling thread from its creation until Close(), whatever the
\* observer's destructor has done so far.
\* ------------------------------------------------------------------------
\* PeerConnectionManager::CreatePeerConnection(peerid): a new observer,
\* which its caller puts into peer_connectionobs_map_
CreatePeerConnection ==
    /\ pcm_status = "ok"
    /\ \E peerid \in 1..MaxPeers, created \in BOOLEAN :
        /\ observers[peerid].life = "none"
        /\ observers' = [observers EXCEPT
                             ![peerid] = PeerConnectionObserver(created)]
        /\ peer_connectionobs_map_' = peer_connectionobs_map_ \cup {peerid}
        /\ UNCHANGED <<threads, requests, pcm_status>>
    /\ UNCHANGED sceneVars

\* PeerConnectionObserver::OnIceCandidate: the connection gathered a
\* candidate
OnIceCandidate ==
    /\ pcm_status = "ok"
    /\ \E peerid \in 1..MaxPeers :
        /\ observers[peerid].life \in {"alive", "destroying", "closing"}
        /\ observers[peerid].pc_
        /\ Len(observers[peerid].ice_candidate_list_) < MaxCandidates
        /\ observers' = [observers EXCEPT ![peerid].ice_candidate_list_ =
                             Append(@, "candidate")]
        /\ UNCHANGED <<peer_connectionobs_map_, threads, requests, pcm_status>>
    /\ UNCHANGED sceneVars

\* PeerConnectionObserver::OnIceConnectionChange, called because the
\* connection's ICE state changed by itself (not by Close())
OnIceConnectionChange ==
    /\ pcm_status = "ok"
    /\ \E peerid \in 1..MaxPeers :
        \E state \in {"kIceConnectionNew", "kIceConnectionChecking",
                      "kIceConnectionConnected", "kIceConnectionCompleted",
                      "kIceConnectionFailed", "kIceConnectionDisconnected"} :
            LET o == observers[peerid]
                R == Do_OnIceConnectionChange([o EXCEPT !.pc.ice = state],
                                              state)
            IN  /\ o.life \in {"alive", "destroying", "closing"}
                /\ o.pc_
                /\ state # o.pc.ice
                /\ R.detached => threads[peerid] < MaxThreads
                /\ observers' = [observers EXCEPT ![peerid] = R.o]
                /\ threads' = [threads EXCEPT
                                   ![peerid] = @ + IF R.detached THEN 1 ELSE 0]
                /\ UNCHANGED <<peer_connectionobs_map_, requests, pcm_status>>
    /\ UNCHANGED sceneVars

\* PeerConnectionManager::HangUp(peerid): the observer leaves the map and
\* is deleted; ~PeerConnectionObserver deletes the channels and tests pc_
Do_HangUp(peerid) ==
    /\ peer_connectionobs_map_' = peer_connectionobs_map_ \ {peerid}
    /\ observers' =
           IF peerid \in peer_connectionobs_map_
           THEN [observers EXCEPT ![peerid].life =
                     IF observers[peerid].pc_ THEN "destroying" ELSE "freed"]
           ELSE observers
    /\ UNCHANGED pcm_status

\* HangUp(peerid) asked for by a client
HangUp ==
    /\ pcm_status = "ok"
    /\ \E peerid \in peer_connectionobs_map_ :
        /\ Do_HangUp(peerid)
        /\ UNCHANGED <<threads, requests>>
    /\ UNCHANGED sceneVars

\* a detached thread runs peer_connection_manager_->HangUp(peerid_): it
\* reads both members through the `this` it captured, and once the object
\* is freed it reads whatever the memory holds now (the old bytes, or it
\* traps)
DetachedHangUp ==
    /\ pcm_status = "ok"
    /\ \E peerid \in 1..MaxPeers :
        /\ threads[peerid] > 0
        /\ threads' = [threads EXCEPT ![peerid] = @ - 1]
        /\ \/ Do_HangUp(peerid)
           \/ /\ observers[peerid].life = "freed"
              /\ pcm_status' = "fault"
              /\ UNCHANGED <<peer_connectionobs_map_, observers>>
        /\ UNCHANGED requests
    /\ UNCHANGED sceneVars

\* ~PeerConnectionObserver after the test of pc_, in the steps another
\* thread can see: deleting_ = true; then pc_->Close(), which calls
\* OnIceConnectionChange(kIceConnectionClosed), and the object is gone
Destructor ==
    /\ pcm_status = "ok"
    /\ \E peerid \in 1..MaxPeers :
        LET o == observers[peerid]
            R == Do_OnIceConnectionChange(
                     [o EXCEPT !.pc.ice = "kIceConnectionClosed",
                               !.pc.closed = TRUE],
                     "kIceConnectionClosed")
        IN  \/ /\ o.life = "destroying"
               /\ observers' = [observers EXCEPT
                                    ![peerid].deleting_ = TRUE,
                                    ![peerid].life = "closing"]
               /\ UNCHANGED threads
            \/ /\ o.life = "closing"
               /\ R.detached => threads[peerid] < MaxThreads
               /\ observers' = [observers EXCEPT
                                    ![peerid] = [R.o EXCEPT !.life = "freed"]]
               /\ threads' = [threads EXCEPT
                                  ![peerid] = @ + IF R.detached THEN 1 ELSE 0]
    /\ UNCHANGED <<peer_connectionobs_map_, requests, pcm_status>>
    /\ UNCHANGED sceneVars

\* a create-offer request of a peer that is in the map and has a
\* connection: CreateSessionDescriptionObserver::Create(pc, promise) is
\* handed to the connection and the caller waits on the promise's future
CreateOffer ==
    /\ pcm_status = "ok"
    /\ Len(requests) < MaxRequests
    /\ \E peerid \in peer_connectionobs_map_ :
        /\ observers[peerid].pc_
        /\ requests' = Append(requests,
               [peerid |-> peerid, observer |-> "create", side |-> "local",
                type |-> "offer",
                promise |-> [sets |-> 0, value |-> "no value"]])
    /\ UNCHANGED <<peer_connectionobs_map_, observers, threads, pcm_status>>
    /\ UNCHANGED sceneVars

\* a set-description request: SetSessionDescriptionObserver::Create(pc,
\* promise) is handed to SetRemoteDescription with the peer's description
SetRemoteDescription ==
    /\ pcm_status = "ok"
    /\ Len(requests) < MaxRequests
    /\ \E peerid \in peer_connectionobs_map_ :
        \E type \in {"offer", "answer", "rollback"} :
            /\ observers[peerid].pc_
            /\ requests' = Append(requests,
                   [peerid |-> peerid, observer |-> "set", side |-> "remote",
                    type |-> type,
                    promise |-> [sets |-> 0, value |-> "no value"]])
    /\ UNCHANGED <<peer_connectionobs_map_, observers, threads, pcm_status>>
    /\ UNCHANGED sceneVars

\* CreateSessionDescriptionObserver::OnSuccess(desc): the connection made
\* the offer; a SetSessionDescriptionObserver on the same promise is handed
\* to pc_->SetLocalDescription with it
CreateSessionDescriptionObserver_OnSuccess ==
    /\ pcm_status = "ok"
    /\ \E i \in DOMAIN requests :
        /\ requests[i].observer = "create"
        /\ ~observers[requests[i].peerid].pc.closed
        /\ requests' = [requests EXCEPT ![i].observer = "set",
                                        ![i].side = "local",
                                        ![i].type = "offer"]
    /\ UNCHANGED <<peer_connectionobs_map_, observers, threads, pcm_status>>
    /\ UNCHANGED sceneVars

\* CreateSessionDescriptionObserver::OnFailure: the connection made none
CreateSessionDescriptionObserver_OnFailure ==
    /\ pcm_status = "ok"
    /\ \E i \in DOMAIN requests :
        /\ requests[i].observer = "create"
        /\ requests' = [requests EXCEPT
               ![i].observer = "none",
               ![i].promise = set_value(@, <<"nullptr", "null">>)]
    /\ UNCHANGED <<peer_connectionobs_map_, observers, threads, pcm_status>>
    /\ UNCHANGED sceneVars

\* SetSessionDescriptionObserver::OnSuccess, called when the connection
\* has set the description; it accepts a rollback only of a pending first
\* offer
SetSessionDescriptionObserver_OnSuccess ==
    /\ pcm_status = "ok"
    /\ \E i \in DOMAIN requests :
        LET r == requests[i]
            was == observers[r.peerid].pc
            pc == ApplyDescription(was, r.side, r.type)
        IN  /\ r.observer = "set"
            /\ ~was.closed
            /\ r.type = "rollback" =>
                   \/ /\ was.local_description = "offer"
                      /\ was.remote_description = "null"
                   \/ /\ was.remote_description = "offer"
                      /\ was.local_description = "null"
            /\ observers' = [observers EXCEPT ![r.peerid].pc = pc]
            /\ requests' = [requests EXCEPT
                   ![i].observer = "none",
                   ![i].promise =
                       IF pc.local_description # "null"
                       THEN set_value(@, <<"local", pc.local_description>>)
                       ELSE IF pc.remote_description # "null"
                       THEN set_value(@, <<"remote", pc.remote_description>>)
                       ELSE @]
    /\ UNCHANGED <<peer_connectionobs_map_, threads, pcm_status>>
    /\ UNCHANGED sceneVars

\* SetSessionDescriptionObserver::OnFailure: the connection refused the
\* description
SetSessionDescriptionObserver_OnFailure ==
    /\ pcm_status = "ok"
    /\ \E i \in DOMAIN requests :
        /\ requests[i].observer = "set"
        /\ requests' = [requests EXCEPT
               ![i].observer = "none",
               ![i].promise = set_value(@, <<"nullptr", "null">>)]
    /\ UNCHANGED <<peer_connectionobs_map_, observers, threads, pcm_status>>
    /\ UNCHANGED sceneVars

\* the thread that waits on the future of a request gets the value: the
\* request returns and its promise is gone
FutureGet ==
    /\ pcm_status = "ok"
    /\ \E i \in DOMAIN requests :
        /\ requests[i].promise.sets > 0
        /\ requests' = SubSeq(requests, 1, i - 1)
                           \o SubSeq(requests, i + 1, Len(requests))
    /\ UNCHANGED <<peer_connectionobs_map_, observers, threads, pcm_status>>
    /\ UNCHANGED sceneVars

\* the peer connection manager beside a scene that nothing calls
PcmStart == Init /\ max_batch_size = 1

\* The observers of the peers: their connections' ICE callbacks, HangUp
\* and the destructor.  The descriptions of a connection play no part in
\* these steps.
PcmNext ==
    \/ CreatePeerConnection
    \/ OnIceCandidate
    \/ OnIceConnectionChange
    \/ HangUp
    \/ DetachedHangUp
    \/ Destructor

PcmSpec == PcmStart /\ [][PcmNext]_vars

\* The create-offer and set-description requests on the connections of
\* the peers, while no peer hangs up.
SdpNext ==
    \/ CreatePeerConnection
    \/ CreateOffer
    \/ SetRemoteDescription
    \/ CreateSessionDescriptionObserver_OnSuccess
    \/ CreateSessionDescriptionObserver_OnFailure
    \/ SetSessionDescriptionObserver_OnSuccess
    \/ SetSessionDescriptionObserver_OnFailure
    \/ FutureGet

SdpSpec == PcmStart /\ [][SdpNext]_vars

\* ------------------------------------------------------------------------
\* Properties
\* ------------------------------------------------------------------------
QueryOps ==
    {"CastRays", "CountIntersections", "ComputeClosestPoints",
     "ComputeDistance", "ComputeSignedDistance", "ComputeOccupancy"}

RegisterOps == {"AddTriangles", "AddTrianglesMesh"}

\* the last call raised on a precondition, before it did anything
Rejected == status = "error" /\ what # EmbreeError

\* the provider reported an error during the last call
ProviderError == status = "error" /\ what = EmbreeError

CallsTo(fn) == {k \in 1..Len(calls) : calls[k].fn = fn}

ProviderQueries == CallsTo("rtcIntersect1M") \cup CallsTo("rtcPointQuery")

\* C1: whenever a query hands an intersect or a point query to the
\* provider, the scene is committed and the committed index holds every
\* geometry registered so far.
C1_QueriesSeeCommittedScene ==
    \A k \in ProviderQueries :
        /\ op.name \in QueryOps
        /\ calls[k].committed
        /\ calls[k].index = Len(geometry_ptrs)
        /\ calls[k].index = Len(scene.geoms)

\* C1 witness: a signed-distance query on a scene that got a second
\* geometry after its last commit issues point and intersect queries.
C1_Witness ==
    /\ op.name = "ComputeSignedDistance"
    /\ status = "ok"
    /\ ~before.committed
    /\ before.bvh = 1
    /\ Len(geometry_ptrs) = 2
    /\ CallsTo("rtcIntersect1M") # {}
    /\ CallsTo("rtcPointQuery") # {}

\* C2: a query whose arguments pass the checks performs a commit if and
\* only if the scene is uncommitted when it starts, and never more than
\* one: one commit for the first query after a registration, none for a
\* further query on the unmodified scene.
C2_OneCommitIffUncommitted ==
    (op.name \in QueryOps /\ ~Rejected) =>
        Cardinality(CallsTo("rtcCommitScene"))
            = IF before.committed THEN 0 ELSE 1

\* C2 witness: a signed-distance query, which runs a closest-point and a
\* counting query, on a freshly registered geometry commits once.
C2_Witness ==
    /\ op.name = "ComputeSignedDistance"
    /\ status = "ok"
    /\ ~before.committed
    /\ Len(geometry_ptrs) >= 1
    /\ Len(op.arg.data) >= 1
    /\ Cardinality(CallsTo("rtcCommitScene")) = 1
    /\ CallsTo("rtcIntersect1M") # {}
    /\ CallsTo("rtcPointQuery") # {}

\* C3: a successful AddTriangles leaves the scene uncommitted, appends
\* exactly one geometry record, keeps the earlier records and performs no
\* commit.
C3_AddTrianglesEffect ==
    (op.name \in RegisterOps /\ status = "ok") =>
        /\ ~scene_committed
        /\ Len(geometry_ptrs) = Len(before.geometry_ptrs) + 1
        /\ SubSeq(geometry_ptrs, 1, Len(before.geometry_ptrs))
               = before.geometry_ptrs
        /\ geometry_ptrs[Len(geometry_ptrs)][1] = RTC_GEOMETRY_TYPE_TRIANGLE
        /\ CallsTo("rtcCommitScene") = {}
        /\ Len(scene.bvh) = before.bvh

\* C3 witness: a geometry is added to a committed scene that has one.
C3_Witness ==
    /\ op.name \in RegisterOps
    /\ status = "ok"
    /\ before.committed
    /\ Len(before.geometry_ptrs) = 1
    /\ Len(geometry_ptrs) = 2

\* the execution record of a call on the scene as it is now, committed
Now == Entry([DefaultEnv EXCEPT !.order = scene.order])

\* what CastRays puts into one slot when the provider is handed the ray r
\* alone
ProviderResult(r) ==
    CastRaysStore(CastRaysResult(1),
                  rtcIntersect1(scene, CastRaysFill(FALSE, ZeroRayHit, r, 0)),
                  0)

Slot(o, i) ==
    [t_hit |-> <<o.t_hit[i]>>, geometry_ids |-> <<o.geometry_ids[i]>>,
     primitive_ids |-> <<o.primitive_ids[i]>>,
     primitive_uvs |-> <<o.primitive_uvs[i]>>,
     primitive_normals |-> <<o.primitive_normals[i]>>]

\* CastRays of the same rays in one batch
Unchunked(rays) ==
    Impl_CastRays(FALSE, Now, rays, Len(rays), Len(rays),
                  CastRaysResult(Len(rays))).out

\* C4: chunk boundaries are invisible in CastRays: for every batch size,
\* output slot i holds the provider's result for input ray i, and the
\* output equals the one of a single unchunked run.
C4_CastRaysChunksInvisible ==
    (op.name = "CastRays" /\ status = "ok" /\ Len(op.arg.data) >= 1) =>
        /\ \A i \in 1..Len(op.arg.data) :
               Slot(out, i) = ProviderResult(op.arg.data[i])
        /\ out = Unchunked(op.arg.data)

\* C4 witness: three rays cast with batch size two, in a full and a
\* partial batch, some hitting and some missing.
C4_Witness ==
    /\ op.name = "CastRays"
    /\ status = "ok"
    /\ Len(op.arg.data) = 3
    /\ max_batch_size = 2
    /\ Cardinality(CallsTo("rtcIntersect1M")) = 2
    /\ out.geometry_ids[1] # RTC_INVALID_GEOMETRY_ID
    /\ out.geometry_ids[3] = RTC_INVALID_GEOMETRY_ID
    /\ out.geometry_ids[2] # out.geometry_ids[3]

\* the ray record CastRays hands to the provider for an unbounded ray
UnboundedRay(r) ==
    [org |-> V3(r[1], r[2], r[3]), dir |-> V3(r[4], r[5], r[6]),
     tnear |-> F(0), tfar |-> PInf, id |-> 0]

\* the provider reports a miss: no primitive of the index is met
Misses(r) == CandidatesFrom(scene, UnboundedRay(r)) = << >>

\* C5: a ray of CastRays that misses gets geometry and primitive id
\* INVALID_ID, uv and normal zero and t_hit = its initial upper bound,
\* +infinity; a miss raises no error: a call with valid rays fails only
\* when the provider does while committing.
C5_MissSentinel ==
    op.name = "CastRays" =>
        /\ status = "ok" =>
               \A i \in 1..Len(op.arg.data) :
                   Misses(op.arg.data[i]) =>
                       /\ out.geometry_ids[i] = RTC_INVALID_GEOMETRY_ID
                       /\ out.primitive_ids[i] = RTC_INVALID_GEOMETRY_ID
                       /\ out.primitive_uvs[i] = <<F(0), F(0)>>
                       /\ out.primitive_normals[i] = V3(0, 0, 0)
                       /\ out.t_hit[i] = PInf
        /\ (op.arg \in RayTensors /\ Len(op.arg.data) >= 1 /\ ~ProviderError)
               => status = "ok"

\* C5 witness: in a scene with geometry one ray of the call hits and
\* another one misses.
C5_Witness ==
    /\ op.name = "CastRays"
    /\ status = "ok"
    /\ Len(scene.bvh) >= 1
    /\ \E i, j \in 1..Len(op.arg.data) :
           /\ Misses(op.arg.data[i])
           /\ ~Misses(op.arg.data[j])
           /\ out.t_hit[i] = PInf
           /\ out.t_hit[j] # PInf

\* the probe rays of the query points: origin = the point, direction =
\* (1, 1, 1)
ProbeTensor(query_points) ==
    Tensor(tensor_device, "Float32", <<Len(query_points.data), 6>>,
           [i \in 1..Len(query_points.data) |->
               <<query_points.data[i][1], query_points.data[i][2],
                 query_points.data[i][3], 1, 1, 1>>])

\* the crossing counts of the probe rays of the last call's points
ProbeCounts ==
    Do_CountIntersections(Now, ProbeTensor(op.arg), max_batch_size).out

\* the unsigned distances of ComputeDistance for the last call's points,
\* where uninitialised memory holds g
Distances(g) ==
    Do_ComputeDistance([Now EXCEPT !.env.garbage = g], geometry_ptrs,
                       op.arg).out

IsOdd(x) == x % 2 = 1

SignedAs(D, X) ==
    \A i \in 1..Len(op.arg.data) :
        /\ out[i] = IF IsOdd(X[i]) THEN FMul(D[i], F(-1)) ELSE D[i]
        /\ FAbs(out[i]) = D[i]

\* C6: ComputeSignedDistance returns for each point the distance of
\* ComputeDistance, times -1 when the crossing count of the probe ray
\* (origin the point, direction (1,1,1)) is odd and times +1 when it is
\* even; its absolute value is the unsigned distance.
C6_SignedDistanceIsDistanceTimesParity ==
    (op.name = "ComputeSignedDistance" /\ status = "ok") =>
        /\ Len(out) = Len(op.arg.data)
        /\ \E g \in GarbageChoices : SignedAs(Distances(g), ProbeCounts)

\* C6 witness: one call returns a negative distance for a point inside
\* the slab and a positive one for a point outside.
C6_Witness ==
    /\ op.name = "ComputeSignedDistance"
    /\ status = "ok"
    /\ \E i, j \in 1..Len(out) :
           /\ out[i].k = "fin" /\ out[i].n < 0
           /\ out[j].k = "fin" /\ out[j].n > 0

IsIntersect(e) == e.fn = "rtcIntersect1M"

\* the intersect calls ComputeSignedDistance makes for the same points
SignedDistanceIntersects ==
    SelectSeq(Do_ComputeSignedDistance(Now, geometry_ptrs, op.arg,
                                       max_batch_size).E.calls, IsIntersect)

OccupancyAs(X) ==
    \A i \in 1..Len(op.arg.data) :
        /\ out[i] \in {F(0), F(1)}
        /\ out[i] = F(X[i] % 2)
        /\ (out[i] = F(1)) <=> (SignOfCount(X[i]) = -1)

\* C7: ComputeOccupancy returns for each point the crossing count mod 2,
\* a value in {0, 1}, of the probe ray ComputeSignedDistance uses, so it
\* is 1 exactly when the signed distance has the factor -1; it makes no
\* point query.
C7_OccupancyIsParity ==
    (op.name = "ComputeOccupancy" /\ status = "ok") =>
        /\ Len(out) = Len(op.arg.data)
        /\ CallsTo("rtcPointQuery") = {}
        /\ OccupancyAs(ProbeCounts)
        /\ SelectSeq(calls, IsIntersect) = SignedDistanceIntersects

CountedFor(ray_id) ==
    Cardinality({k \in 1..Len(filtered) :
                    filtered[k][1] = ray_id /\ filtered[k][5]})

\* C7 witness: one call returns 1 for a point whose probe ray crosses
\* once and 0 for a point whose probe ray crosses twice.
C7_Witness ==
    /\ op.name = "ComputeOccupancy"
    /\ status = "ok"
    /\ \E i, j \in 1..Len(out) :
           /\ out[i] = F(1) /\ CountedFor(i - 1) = 1
           /\ out[j] = F(0) /\ CountedFor(j - 1) = 2

GoodTriangleMeshes ==
    { [m EXCEPT !.triangles.dtype = "Int64"] : m \in MeshChoices }

\* the argument of the last call violates a precondition: device, rank,
\* last dimension, dtype, or a mesh with more than 2^32 - 1 vertices
InvalidArgument ==
    \/ op.name \in {"CastRays", "CountIntersections"} /\ op.arg \notin RayTensors
    \/ /\ op.name \in {"ComputeClosestPoints", "ComputeDistance",
                       "ComputeSignedDistance", "ComputeOccupancy"}
       /\ op.arg \notin PointTensors
    \/ op.name = "AddTriangles" /\ op.arg \notin MeshChoices
    \/ op.name = "AddTrianglesMesh" /\ op.arg \notin GoodTriangleMeshes

C9_FailedCommitIsRetried ==
    /\ ProviderError =>
           /\ op.name \in QueryOps
           /\ ~before.committed
           /\ ~scene_committed
           /\ out = NoResult
           /\ calls = <<[fn |-> "rtcCommitScene"]>>
           /\ Len(scene.bvh) = before.bvh
    /\ (op.name \in QueryOps /\ ~Rejected /\ before.after_error) =>
           /\ Len(calls) >= 1
           /\ calls[1].fn = "rtcCommitScene"

\* C9 witness: the query after a failed commit commits and succeeds.
C9_Witness ==
    /\ op.name \in QueryOps
    /\ before.after_error
    /\ status = "ok"
    /\ Len(geometry_ptrs) >= 1
    /\ scene_committed
    /\ ProviderQueries # {}

\* the geometric normal the provider reports for the ray r
ReportedNg(r) ==
    rtcIntersect1(scene, CastRaysFill(FALSE, ZeroRayHit, r, 0)).hit.Ng

\* Ng scaled to unit length
UnitNg(Ng) ==
    <<FDiv(Ng[1], VNorm(Ng)), FDiv(Ng[2], VNorm(Ng)), FDiv(Ng[3], VNorm(Ng))>>

\* C10: for a CastRays hit whose reported geometric normal has zero
\* length the output normal is the zero vector, and for every other hit
\* it is the reported normal scaled to unit length; the call does not
\* fail.
C10_DegenerateNormalIsZero ==
    (op.name = "CastRays" /\ op.arg \in RayTensors /\ ~ProviderError
        /\ Len(op.arg.data) >= 1) =>
        /\ status = "ok"
        /\ \A i \in 1..Len(op.arg.data) :
               ~Misses(op.arg.data[i]) =>
                   out.primitive_normals[i]
                       = IF ReportedNg(op.arg.data[i]) = V3(0, 0, 0)
                         THEN V3(0, 0, 0)
                         ELSE UnitNg(ReportedNg(op.arg.data[i]))

\* What the code does in the case of C10: the call succeeds, a hit with a
\* zero normal gets the normal (NaN, NaN, NaN) = 0 * (1 / 0), every other
\* hit the unit normal.
C10_DegenerateNormalIsNaN ==
    (op.name = "CastRays" /\ op.arg \in RayTensors /\ ~ProviderError
        /\ Len(op.arg.data) >= 1) =>
        /\ status = "ok"
        /\ \A i \in 1..Len(op.arg.data) :
               ~Misses(op.arg.data[i]) =>
                   out.primitive_normals[i]
                       = IF ReportedNg(op.arg.data[i]) = V3(0, 0, 0)
                         THEN <<NaN, NaN, NaN>>
                         ELSE UnitNg(ReportedNg(op.arg.data[i]))

\* the buffer behind a pointer of a registry record
Deref(ptr) ==
    IF ptr.buf = "vertex" THEN At(scene.geoms, ptr.geom).vertex
    ELSE At(scene.geoms, ptr.geom).index

\* C11: the handles AddTriangles returned on the scene are pairwise
\* distinct, none is INVALID_ID, and the registry entry at index h is the
\* record (triangle kind, vertex buffer, index buffer) of the registration
\* that returned h: its buffers hold the rows that registration was given.
C11_HandlesIndexRegistry ==
    /\ Len(handles) = Len(geometry_ptrs)
    /\ \A i, j \in 1..Len(handles) :
           i # j => handles[i].handle # handles[j].handle
    /\ \A i \in 1..Len(handles) :
           /\ handles[i].handle # RTC_INVALID_GEOMETRY_ID
           /\ handles[i].handle \in 0..(Len(geometry_ptrs) - 1)
           /\ At(geometry_ptrs, handles[i].handle)[1] = RTC_GEOMETRY_TYPE_TRIANGLE
           /\ Deref(At(geometry_ptrs, handles[i].handle)[2]) = handles[i].vertices
           /\ Deref(At(geometry_ptrs, handles[i].handle)[3]) = handles[i].triangles

\* C11 witness: two different meshes are registered and a closest-point
\* query then finds a result in the second one.
C11_Witness ==
    /\ Len(handles) = 2
    /\ handles[1].vertices # handles[2].vertices
    /\ op.name = "ComputeClosestPoints"
    /\ status = "ok"
    /\ \E i \in 1..Len(out.geometry_ids) :
           out.geometry_ids[i] = handles[2].handle

\* the rows (origin, direction) of the rays the intersect calls k.. of the
\* last call were handed, in the order of the calls
RECURSIVE HandedRows(_)
HandedRows(k) ==
    IF k > Len(calls) THEN << >>
    ELSE IF calls[k].fn = "rtcIntersect1M"
    THEN [j \in 1..calls[k].M |-> calls[k].rays[j].org \o calls[k].rays[j].dir]
         \o HandedRows(k + 1)
    ELSE HandedRows(k + 1)

RowsAsFloats(rows) ==
    [i \in 1..Len(rows) |-> [j \in 1..6 |-> F(rows[i][j])]]

\* ceil(n / b) for n >= 1, b >= 1
Ceil(n, b) == CHOOSE k \in 1..n : k * b >= n /\ (k - 1) * b < n

\* C12: for n >= 1 rays CastRays and CountIntersections call the batched
\* intersect ceil(n / MAX_BATCH_SIZE) times, each call gets between 1 and
\* MAX_BATCH_SIZE rays, the chunks are disjoint and cover the rays 0..n-1
\* in order, and the working buffer holds at most MAX_BATCH_SIZE records.
C12_BatchesCoverRaysInOrder ==
    (op.name \in {"CastRays", "CountIntersections"} /\ status = "ok"
        /\ Len(op.arg.data) >= 1) =>
        /\ Cardinality(CallsTo("rtcIntersect1M"))
               = Ceil(Len(op.arg.data), max_batch_size)
        /\ \A k \in CallsTo("rtcIntersect1M") :
               /\ calls[k].M \in 1..max_batch_size
               /\ calls[k].size \in calls[k].M..max_batch_size
        /\ HandedRows(1) = RowsAsFloats(op.arg.data)

\* C12 witness: CountIntersections of three rays with batch size two
\* makes a call with two rays and a call with one.
C12_Witness ==
    /\ op.name = "CountIntersections"
    /\ status = "ok"
    /\ Len(op.arg.data) = 3
    /\ max_batch_size = 2
    /\ \E k, l \in CallsTo("rtcIntersect1M") :
           k < l /\ calls[k].M = 2 /\ calls[l].M = 1

\* ------------------------------------------------------------------------
\* The crossing filter, read from the trace of its invocations
\* ------------------------------------------------------------------------
Invocations == 1..Len(filtered)

RayOf(k) == filtered[k][1]

\* the candidate of invocation k
GeomOf(k) == filtered[k][2]
PrimOf(k) == filtered[k][3]
TOf(k) == filtered[k][4]

\* the last-seen triples and the counts when invocation k started
TriplesBefore(k) ==
    IF k = 1
    THEN [i \in 1..Len(filtered[k][7]) |->
             <<RTC_INVALID_GEOMETRY_ID, RTC_INVALID_GEOMETRY_ID, F(0)>>]
    ELSE filtered[k - 1][7]

CountsBefore(k) ==
    IF k = 1 THEN [i \in 1..Len(filtered[k][8]) |-> 0] ELSE filtered[k - 1][8]

\* the triple last recorded for the ray of invocation k when it started
Seen(k) == At(TriplesBefore(k), RayOf(k))

\* invocation k recorded a new crossing for its ray
Crossing(k) == At(filtered[k][8], RayOf(k)) = At(CountsBefore(k), RayOf(k)) + 1

\* C13 as stated: the filter records a new crossing exactly when the
\* candidate's (geometry id, primitive id) pair differs from the pair last
\* recorded for the ray, whatever the candidate's t.
C13_NewPairIsNewCrossing ==
    \A k \in Invocations :
        Crossing(k) <=> (<<GeomOf(k), PrimOf(k)>> # <<Seen(k)[1], Seen(k)[2]>>)

\* C13 amended: the filter records a new crossing exactly when the
\* candidate's geometry id differs from the one last recorded for the ray,
\* or its primitive id and its t both differ from the ones last recorded;
\* a candidate on another primitive of the same geometry at the last
\* recorded t is a duplicate, as is one with the last recorded pair.
C13_NewGeomOrNewPrimAndT ==
    \A k \in Invocations :
        Crossing(k) <=> (GeomOf(k) # Seen(k)[1]
                         \/ (PrimOf(k) # Seen(k)[2] /\ TOf(k) # Seen(k)[3]))

\* C13 witness: on one ray a candidate on another primitive of the last
\* recorded geometry is ignored at the same t and counted at another t,
\* and a candidate with the last recorded pair is ignored.
C13_Witness ==
    /\ \E k \in Invocations :
           /\ ~Crossing(k)
           /\ GeomOf(k) = Seen(k)[1] /\ PrimOf(k) # Seen(k)[2]
           /\ TOf(k) = Seen(k)[3]
    /\ \E k \in Invocations :
           /\ Crossing(k)
           /\ GeomOf(k) = Seen(k)[1] /\ PrimOf(k) # Seen(k)[2]
           /\ TOf(k) # Seen(k)[3]
    /\ \E k \in Invocations :
           /\ ~Crossing(k)
           /\ GeomOf(k) = Seen(k)[1] /\ PrimOf(k) = Seen(k)[2]

\* invocations k and k + 1 are for the same ray and their candidates lie
\* on two primitives of one geometry at the same t
CoincidentPair(k) ==
    /\ k + 1 \in Invocations
    /\ RayOf(k + 1) = RayOf(k)
    /\ GeomOf(k + 1) = GeomOf(k)
    /\ PrimOf(k + 1) # PrimOf(k)
    /\ TOf(k + 1) = TOf(k)

\* by how much invocation k raised the count of its ray
Raised(k) == At(filtered[k][8], RayOf(k)) - At(CountsBefore(k), RayOf(k))

\* C14: when two consecutive candidates of a ray lie on two primitives
\* of the same geometry at exactly the same t, the count of the ray rises
\* by 1 for the pair when the pair is a crossing the ray has not recorded
\* (another geometry or another t than last recorded), and never by 2.
C14_CoincidentPairCountsOnce ==
    \A k \in Invocations :
        CoincidentPair(k) =>
            /\ Raised(k) + Raised(k + 1) <= 1
            /\ (GeomOf(k) # Seen(k)[1] \/ TOf(k) # Seen(k)[3])
                   => Raised(k) + Raised(k + 1) = 1

\* C14 witness: a ray of CountIntersections meets the two primitives of
\* one geometry at the same t and nothing else, and its count is 1.
C14_Witness ==
    /\ op.name = "CountIntersections"
    /\ status = "ok"
    /\ Len(filtered) = 2
    /\ CoincidentPair(1)
    /\ Crossing(1)
    /\ At(out, RayOf(1)) = 1

\* trace entries as candidates (geomID, primID, t)
AsCandidates(s) ==
    [k \in 1..Len(s) |-> [geomID |-> s[k][2], primID |-> s[k][3], t |-> s[k][4]]]

\* the candidates the filter was invoked for with ray id r, in order
TraceOfRay(r) == AsCandidates(SelectSeq(filtered, LAMBDA e : e[1] = r))

\* C15: the filter marks every candidate rejected, counted or not, so the
\* provider never accepts a hit and goes on: the filter is invoked for
\* every primitive the full ray (0 < t <= +infinity) meets, the ones
\* behind counted candidates included.
C15_EveryCandidateRejectedAndVisited ==
    /\ \A k \in Invocations : filtered[k][6] = 0
    /\ (op.name = "CountIntersections" /\ status = "ok") =>
           \A i \in 1..Len(op.arg.data) :
               TraceOfRay(i - 1)
                   = CandidatesFrom(scene, UnboundedRay(op.arg.data[i]))

\* C15 witness: the filter counts a candidate of a ray and is later
\* invoked for a farther candidate of the same ray; another invocation
\* ignores its candidate.
C15_Witness ==
    /\ op.name = "CountIntersections"
    /\ status = "ok"
    /\ \E k, l \in Invocations :
           /\ k < l
           /\ RayOf(k) = RayOf(l)
           /\ filtered[k][5]
           /\ FLess(TOf(k), TOf(l))
    /\ \E k \in Invocations : ~filtered[k][5]

\* the number of candidates the filter counted for ray id r
NumCounted(r) == Len(SelectSeq(filtered, LAMBDA e : e[1] = r /\ e[5]))

\* C16: the per-ray counts start at 0 and the last-seen triples at
\* (INVALID_ID, INVALID_ID, 0); an invocation of the filter either adds
\* one to the count of its ray and sets the triple of its ray to the
\* candidate, or leaves counts and triples as they were, and changes
\* nothing of another ray; when the chunks are done the count of a ray is
\* the number of candidates counted for it, 0 for a ray with no candidate
\* and at least 1 for a ray with one.
C16_CountsFollowFilter ==
    /\ \A k \in Invocations :
           \/ /\ filtered[k][5]
              /\ filtered[k][8]
                     = SetAt(CountsBefore(k), RayOf(k),
                             At(CountsBefore(k), RayOf(k)) + 1)
              /\ filtered[k][7]
                     = SetAt(TriplesBefore(k), RayOf(k),
                             <<GeomOf(k), PrimOf(k), TOf(k)>>)
           \/ /\ ~filtered[k][5]
              /\ filtered[k][8] = CountsBefore(k)
              /\ filtered[k][7] = TriplesBefore(k)
    /\ (op.name = "CountIntersections" /\ status = "ok") =>
           /\ Len(out) = Len(op.arg.data)
           /\ \A i \in 1..Len(out) :
                  /\ out[i] = NumCounted(i - 1)
                  /\ Misses(op.arg.data[i]) => out[i] = 0
                  /\ ~Misses(op.arg.data[i]) => out[i] >= 1

\* C16 witness: CountIntersections of a ray that meets nothing and a ray
\* for which the filter counts two candidates and ignores one.
C16_Witness ==
    /\ op.name = "CountIntersections"
    /\ status = "ok"
    /\ \E i, j \in 1..Len(out) :
           /\ Misses(op.arg.data[i])
           /\ out[i] = 0
           /\ out[j] = 2
           /\ Len(TraceOfRay(j - 1)) > 2

\* ------------------------------------------------------------------------
\* The closest-point callback, read from the trace of its invocations:
\* visit k of query i of the last call
\* ------------------------------------------------------------------------
Queries == 1..Len(visited)

Visits(i) == 1..Len(visited[i])

VisitedIds(i, k) == <<visited[i][k][1], visited[i][k][2]>>

DistOf(i, k) == visited[i][k][3]

Taken(i, k) == visited[i][k][4]

RadiusBefore(i, k) == visited[i][k][5]

RadiusAfter(i, k) == visited[i][k][6]

BestAfter(i, k) == visited[i][k][7]

NoBest == <<RTC_INVALID_GEOMETRY_ID, RTC_INVALID_GEOMETRY_ID>>

BestBefore(i, k) == IF k = 1 THEN NoBest ELSE BestAfter(i, k - 1)

\* visit k of query i is the first one at the smallest distance of all
\* the visits of the query
FirstNearest(i, k) ==
    /\ \A l \in Visits(i) : FLeq(DistOf(i, k), DistOf(i, l))
    /\ \A l \in 1..(k - 1) : DistOf(i, l) # DistOf(i, k)

\* C17: a closest-point query starts with radius +infinity; the callback
\* replaces the best result exactly when the distance of the visited
\* primitive is strictly smaller than the radius, and then the radius
\* becomes that distance; so the radius never increases and is the
\* distance of the best result, and the result returned is a visited
\* primitive of minimum distance, the first one visited among equals.
C17_BestIsFirstNearestVisited ==
    /\ \A i \in Queries : \A k \in Visits(i) :
           /\ RadiusBefore(i, k) = IF k = 1 THEN PInf ELSE RadiusAfter(i, k - 1)
           /\ Taken(i, k) <=> FLess(DistOf(i, k), RadiusBefore(i, k))
           /\ Taken(i, k) =>
                  /\ RadiusAfter(i, k) = DistOf(i, k)
                  /\ BestAfter(i, k) = VisitedIds(i, k)
           /\ ~Taken(i, k) =>
                  /\ RadiusAfter(i, k) = RadiusBefore(i, k)
                  /\ BestAfter(i, k) = BestBefore(i, k)
           /\ FLeq(RadiusAfter(i, k), RadiusBefore(i, k))
           /\ \E j \in 1..k :
                  /\ BestAfter(i, k) = VisitedIds(i, j)
                  /\ RadiusAfter(i, k) = DistOf(i, j)
    /\ (op.name = "ComputeClosestPoints" /\ status = "ok") =>
           /\ Len(visited) = Len(out.geometry_ids)
           /\ \A i \in Queries :
                  Len(visited[i]) >= 1 =>
                      \E k \in Visits(i) :
                          /\ FirstNearest(i, k)
                          /\ out.geometry_ids[i] = visited[i][k][1]
                          /\ out.primitive_ids[i] = visited[i][k][2]
                          /\ RadiusAfter(i, Len(visited[i])) = DistOf(i, k)

\* C17 witness: a query of ComputeClosestPoints whose callback takes a
\* first primitive, then a nearer one of another id, and leaves the
\* result alone for a primitive at the distance of the best.
C17_Witness ==
    /\ op.name = "ComputeClosestPoints"
    /\ status = "ok"
    /\ \E i \in Queries : \E k, l, m \in Visits(i) :
           /\ k < l
           /\ Taken(i, k) /\ Taken(i, l)
           /\ VisitedIds(i, k) # VisitedIds(i, l)
           /\ ~Taken(i, m)
           /\ DistOf(i, m) = RadiusBefore(i, m)
           /\ VisitedIds(i, m) # BestBefore(i, m)

\* the last call was CastRays or CountIntersections of a valid tensor of
\* zero rays, and the commit, if there was one, succeeded
ZeroRaysCall ==
    /\ op.name \in {"CastRays", "CountIntersections"}
    /\ op.arg \in RayTensors
    /\ Len(op.arg.data) = 0
    /\ status # "error"

\* C18: for an input of zero rays CastRays and CountIntersections compute
\* the chunk count 0, make no intersect call and return empty results
\* without a fault.
C18_ZeroRaysReturnEmpty ==
    ZeroRaysCall =>
        /\ status = "ok"
        /\ CallsTo("rtcIntersect1M") = {}
        /\ op.name = "CastRays" => out = CastRaysResult(0)
        /\ op.name = "CountIntersections" => out = << >>

\* what the code does for zero rays: the chunk count is the quotient of
\* 0 by rayhits.size() = 0; the call traps, or, where the division
\* yields 0, returns empty results without an intersect call
C18_ZeroRaysTrapOrEmpty ==
    ZeroRaysCall =>
        /\ CallsTo("rtcIntersect1M") = {}
        /\ status = "ok" => out \in {CastRaysResult(0), << >>}

\* CountIntersections of the same rays in one batch
UnchunkedCounts(rays) ==
    Impl_CountIntersections(Now, rays, Len(rays), Len(rays), << >>).out

\* the candidate of invocation k is a primitive of the index that the
\* input ray with index r meets, at the t the ray meets it
CandidateOf(k, r) ==
    /\ GeomOf(k) \in 0..(Len(scene.bvh) - 1)
    /\ PrimOf(k) \in 0..(Len(At(scene.bvh, GeomOf(k)).index) - 1)
    /\ TOf(k) = PrimT(scene, <<GeomOf(k), PrimOf(k)>>,
                      UnboundedRay(op.arg.data[r + 1]))
    /\ ValidT(UnboundedRay(op.arg.data[r + 1]), TOf(k))

\* invocation k left the count and the triple of ray id r as they were
Untouched(k, r) ==
    /\ At(filtered[k][7], r) = At(TriplesBefore(k), r)
    /\ At(filtered[k][8], r) = At(CountsBefore(k), r)

\* C19: CountIntersections is chunk-invariant: the ray id of a candidate
\* is the index of its ray in the input, so for every batch size the
\* filter works on the count and the triple of input ray i only for
\* candidates of ray i, whatever the position of the ray in the working
\* buffer, and the counts equal those of a single unchunked run.
C19_CountIntersectionsChunksInvisible ==
    (op.name = "CountIntersections" /\ status = "ok"
        /\ Len(op.arg.data) >= 1) =>
        /\ \A k \in Invocations :
               /\ RayOf(k) \in 0..(Len(op.arg.data) - 1)
               /\ CandidateOf(k, RayOf(k))
               /\ \A r \in 0..(Len(op.arg.data) - 1) :
                      r # RayOf(k) => Untouched(k, r)
        /\ out = UnchunkedCounts(op.arg.data)

\* C19 witness: three rays counted with batch size two; the first and the
\* third ray use the same record of the working buffer in different
\* chunks, both meet primitives, and their counts differ.
C19_Witness ==
    /\ op.name = "CountIntersections"
    /\ status = "ok"
    /\ Len(op.arg.data) = 3
    /\ max_batch_size = 2
    /\ Cardinality(CallsTo("rtcIntersect1M")) = 2
    /\ out[1] >= 1
    /\ out[3] >= 1
    /\ out[1] # out[3]

\* the last call was a closest-point query of at least one point on a
\* scene without geometry
EmptySceneQuery ==
    /\ op.name \in {"ComputeClosestPoints", "ComputeDistance"}
    /\ status = "ok"
    /\ Len(geometry_ptrs) = 0
    /\ Len(op.arg.data) >= 1

\* what the last call returns when the uninitialised memory holds g
ResultWith(g) ==
    IF op.name = "ComputeClosestPoints"
    THEN Do_ComputeClosestPoints([Now EXCEPT !.env.garbage = g],
                                 geometry_ptrs, op.arg).out
    ELSE Do_ComputeDistance([Now EXCEPT !.env.garbage = g],
                            geometry_ptrs, op.arg).out

\* C20: on a scene without geometry, where the callback is never invoked,
\* ComputeClosestPoints returns geometry and primitive id INVALID_ID for
\* every point, and the point it returns, and the distance ComputeDistance
\* derives from it, is a defined value: the same whatever the memory of
\* the result held before the query.
C20_EmptySceneResultDefined ==
    EmptySceneQuery =>
        /\ op.name = "ComputeClosestPoints" =>
               \A i \in 1..Len(op.arg.data) :
                   /\ out.geometry_ids[i] = RTC_INVALID_GEOMETRY_ID
                   /\ out.primitive_ids[i] = RTC_INVALID_GEOMETRY_ID
        /\ \A g \in GarbageChoices : out = ResultWith(g)

\* what the code does: the ids are INVALID_ID, and the point is what the
\* memory of the result held, since nothing initialises or assigns it
C20_EmptySceneIdsInvalid ==
    EmptySceneQuery =>
        /\ \A i \in Queries : Len(visited[i]) = 0
        /\ op.name = "ComputeClosestPoints" =>
               \A i \in 1..Len(op.arg.data) :
                   /\ out.geometry_ids[i] = RTC_INVALID_GEOMETRY_ID
                   /\ out.primitive_ids[i] = RTC_INVALID_GEOMETRY_ID
        /\ \E g \in GarbageChoices : out = ResultWith(g)

\* the observers of the i-th request have all been called: no callback of
\* it is outstanding
AllCalled(i) == requests[i].observer = "none"

\* the thread waiting on the future of the i-th request can go on
Releasable(i) == requests[i].promise.sets > 0

\* C21: for every create-offer / set-description request, whichever
\* callbacks fire (CreateSessionDescriptionObserver OnSuccess or OnFailure,
\* then SetSessionDescriptionObserver OnSuccess or OnFailure), the shared
\* promise is fulfilled exactly once: never twice, and once the last
\* callback of the request has been called it is fulfilled, so the thread
\* waiting on its future is released; also when the connection has neither
\* a local nor a remote description.
C21_PromiseFulfilledExactlyOnce ==
    \A i \in DOMAIN requests :
        /\ requests[i].promise.sets <= 1
        /\ AllCalled(i) => requests[i].promise.sets = 1 /\ Releasable(i)

\* the last callback of the i-th request is called in this step and
\* leaves the promise unfulfilled
EndsUnfulfilled(i) ==
    /\ Len(requests') = Len(requests)
    /\ ~AllCalled(i)
    /\ requests'[i].observer = "none"
    /\ requests'[i].promise.sets = 0

\* what the code does: the promise is never fulfilled twice, and the last
\* callback leaves it unfulfilled only if it is OnSuccess on a connection
\* that has neither description
C21_UnfulfilledOnlyWithoutDescription ==
    [][\A i \in DOMAIN requests :
          /\ requests[i].promise.sets <= 1
          /\ EndsUnfulfilled(i) =>
                 /\ observers'[requests[i].peerid].pc.local_description
                        = "null"
                 /\ observers'[requests[i].peerid].pc.remote_description
                        = "null"]_vars

\* a request ended by OnSuccess on a connection without descriptions
C21_UnfulfilledReached ==
    \E i \in DOMAIN requests : AllCalled(i) /\ ~Releasable(i)

\* the observer's destructor has started (or ended)
Destroyed(o) == o.life \in {"destroying", "closing", "freed"}

\* in this step the ICE connection state of peer p changes to Failed or
\* Closed
ToFailedOrClosed(p) ==
    /\ observers'[p].pc.ice # observers[p].pc.ice
    /\ observers'[p].pc.ice \in {"kIceConnectionFailed", "kIceConnectionClosed"}

\* in this step the destructor of p's observer closes the connection
ByDestruction(p) ==
    observers[p].life = "closing" /\ observers'[p].life = "freed"

\* in this step a detached thread is started for p's observer, and one
\* started earlier runs
Started(p) == threads'[p] = threads[p] + 1

Runs(p) == threads'[p] = threads[p] - 1

\* what the code does: a change to Failed or Closed clears the candidate
\* list and starts a HangUp of that peer id unless deleting_ is set, and
\* the destructor has set deleting_ when it closes the connection, so
\* that its own Close() starts none
C22_ClearsAndHangsUpUnlessDeleting ==
    [][\A p \in 1..MaxPeers :
          /\ ToFailedOrClosed(p) =>
                 /\ observers'[p].ice_candidate_list_ = << >>
                 /\ Started(p) <=> ~observers[p].deleting_
                 /\ \A q \in 1..MaxPeers : q # p => threads'[q] = threads[q]
          /\ ByDestruction(p) => observers[p].deleting_ /\ ~Started(p)
          /\ Started(p) => ToFailedOrClosed(p)]_vars

\* no HangUp is started for an observer that is being destroyed
C22_NoHangUpStartedWhileDestroyed ==
    [][\A p \in 1..MaxPeers : Started(p) => ~Destroyed(observers[p])]_vars

\* no detached thread uses an observer that is being destroyed
C22_NoThreadUsesDestroyed ==
    [][\A p \in 1..MaxPeers : Runs(p) => ~Destroyed(observers[p])]_vars

\* C22: an ICE connection change to Failed or Closed always clears the
\* observer's candidate list and starts an asynchronous HangUp for that
\* peer id, except when the observer's own destruction causes it: the
\* destructor sets deleting_ before it closes the connection, so no HangUp
\* is ever started for, and no detached thread ever uses, an observer
\* that is being destroyed.
C22_NoHangUpOfDestroyedObserver ==
    [][\A p \in 1..MaxPeers :
          /\ ToFailedOrClosed(p) =>
                 /\ observers'[p].ice_candidate_list_ = << >>
                 /\ Started(p) <=> ~observers[p].deleting_
          /\ ByDestruction(p) => observers[p].deleting_ /\ ~Started(p)
          /\ Started(p) => ~Destroyed(observers[p])
          /\ Runs(p) => ~Destroyed(observers[p])]_vars

\* a detached thread read an observer that was freed, and trapped
C22_ThreadTrapped == pcm_status = "fault"

====
